---- MODULE Spec2Model ----
(***************************************************************************)
(* Golf scoring and handicapping engine of the golfshot backend            *)
(* (backend/app/routers/rounds.py, backend/app/routers/users.py).          *)
(*                                                                         *)
(* Number representation.  Python floats that carry a handicap index or a  *)
(* virtual handicap are modelled as exact rationals:                       *)
(*   - a handicap index is an integer number of hundredths (14.2 = 1420),  *)
(*   - a virtual handicap is an integer number of tenths   (10.2 = 102).   *)
(* round(x) and round(x, 1) are round-half-to-even on the exact value.     *)
(* On every input drawn below the binary double computation of the source  *)
(* gives the same result as the exact one (the handicap indexes used are   *)
(* either given to one decimal or are exact binary fractions such as       *)
(* 14.25).                                                                 *)
(*                                                                         *)
(* Python None is the empty tuple, a present optional value x is <<x>>.    *)
(* A Python dict is a function; a missing key is a key outside its DOMAIN. *)
(***************************************************************************)
EXTENDS Integers, Sequences, FiniteSets, TLC

VARIABLES
  courses,   \* table "courses": course id -> [holes_data, tees]
  rounds,    \* table "rounds":  round id  -> stored round row
  call,      \* the function or handler call in progress / last completed:
             \* its name (op), its arguments, its local variables, its result
  inflight,  \* the requests being served: worker -> the request and the
             \* columns its handler has selected
  profiles   \* table "profiles": user id -> [role, status, permissions, ...]

vars == <<courses, rounds, call, inflight, profiles>>

None == <<>>
Some(x) == <<x>>
IsNone(o) == o = <<>>
Val(o) == o[1]

\* dict.get(key, default)
Get(d, key, default) == IF key \in DOMAIN d THEN d[key] ELSE default

-----------------------------------------------------------------------------
(* Rounding *)

\* Python round(n / d) for an exact rational n/d, d > 0: nearest integer,
\* ties to the even one.
py_round(n, d) ==
  LET q == n \div d
      r == n % d
  IN  IF 2 * r < d THEN q
      ELSE IF 2 * r > d THEN q + 1
      ELSE IF q % 2 = 0 THEN q ELSE q + 1

\* Python round(x, 1) for x given in hundredths; the result is in tenths.
py_round1(x100) == py_round(x100, 10)

-----------------------------------------------------------------------------
(* 4.1 Handicap calculator *)

\* A mutation of calculate_playing_handicap: int() truncation instead of round().
calculate_playing_handicap_trunc(handicap_index, slope, percentage) ==
  (handicap_index * slope * percentage) \div (100 * 113 * 100)

\* A mutation of calculate_playing_handicap: a handicap index of 0 is taken
\* as absent and replaced by the schema default 24.0.
calculate_playing_handicap_default(handicap_index, slope, percentage) ==
  py_round((IF handicap_index = 0 THEN 2400 ELSE handicap_index)
           * slope * percentage, 100 * 113 * 100)

\* rounds.py: calculate_playing_handicap; handicap_index in hundredths.
\*   playing_hcp = (handicap_index * slope) / 113
\*   return round(playing_hcp * percentage / 100)
calculate_playing_handicap(handicap_index, slope, percentage) ==
  py_round(handicap_index * slope * percentage, 100 * 113 * 100)

\* users.py: calculate_playing_handicap_for_backfill (a verbatim copy).
calculate_playing_handicap_for_backfill(handicap_index, slope, percentage) ==
  py_round(handicap_index * slope * percentage, 100 * 113 * 100)

-----------------------------------------------------------------------------
(* Helpers shared by the translations below *)

\* Python range(a, b) as a sequence.
range(a, b) == [i \in 1..(b - a) |-> a + i - 1]

\* str(hole_num) for the hole numbers 1..18: the keys of a scores dict.
HoleKeys ==
  <<"1", "2", "3", "4", "5", "6", "7", "8", "9",
    "10", "11", "12", "13", "14", "15", "16", "17", "18">>
str(hole_num) == HoleKeys[hole_num]

\* {h.get("number"): h for h in holes_data}: a later entry wins.
holes_lookup_of(holes_data) ==
  [n \in {holes_data[i].number : i \in DOMAIN holes_data} |->
     holes_data[CHOOSE i \in DOMAIN holes_data :
                  /\ holes_data[i].number = n
                  /\ \A j \in DOMAIN holes_data :
                       holes_data[j].number = n => j <= i]]

\* next((t for t in tees if t.get("name") == tee_box), None)
matching_tee_of(tees, tee_box) ==
  LET hits == {i \in DOMAIN tees : Get(tees[i], "name", "<None>") = tee_box}
  IN  IF hits = {} THEN None
      ELSE Some(tees[CHOOSE i \in hits : \A j \in hits : i <= j])

\* A mutation of user_player_of: the last player of the list.
user_player_last(players) == players[Len(players)]

\* rounds.py 52-53, users.py 514 and 1137: the first player of a round's
\* non-empty list is the user.
user_player_of(players) == players[1]

\* A mutation of holes_to_count_of: the back nine starts one hole early.
holes_to_count_of_shifted(course_length) ==
  IF course_length = "front9" THEN range(1, 10)
  ELSE IF course_length = "back9" THEN range(9, 18)
  ELSE range(1, 19)

\* rounds.py 75-80 (and users.py 529-534, 1158-1163)
holes_to_count_of(course_length) ==
  IF course_length = "front9" THEN range(1, 10)
  ELSE IF course_length = "back9" THEN range(10, 19)
  ELSE range(1, 19)

-----------------------------------------------------------------------------
(* 4.2 / 4.3 Virtual handicap calculator, rounds.py *)

\* A mutation of strokes_received_vh: strict comparison with the remainder.
strokes_received_vh_strict(effective_handicap, handicap_index) ==
  IF effective_handicap > 0
  THEN (effective_handicap \div 18)
       + (IF handicap_index < effective_handicap % 18 THEN 1 ELSE 0)
  ELSE 0

\* rounds.py 106-111: strokes received on a hole
strokes_received_vh(effective_handicap, handicap_index) ==
  IF effective_handicap > 0
  THEN LET base_strokes == effective_handicap \div 18
           remainder == effective_handicap % 18
       IN  base_strokes + (IF handicap_index <= remainder THEN 1 ELSE 0)
  ELSE 0

\* A mutation of points_vh: an albatross is capped at 4 points.
points_vh_capped(diff) ==
  IF diff <= -2 THEN 4
  ELSE IF diff = -1 THEN 3
  ELSE IF diff = 0 THEN 2
  ELSE IF diff = 1 THEN 1
  ELSE 0

\* rounds.py 117-128: Stableford table
points_vh(diff) ==
  IF diff <= -3 THEN 5
  ELSE IF diff = -2 THEN 4
  ELSE IF diff = -1 THEN 3
  ELSE IF diff = 0 THEN 2
  ELSE IF diff = 1 THEN 1
  ELSE 0

\* A mutation of diff_vh: the gross score is compared with par.
diff_vh_gross(strokes, strokes_received, par) ==
  strokes - par

\* rounds.py 113-115: net score against par
diff_vh(strokes, strokes_received, par) ==
  LET net_score == strokes - strokes_received
  IN  net_score - par

\* rounds.py 89-131: the loop over holes_to_count.  acc carries
\* total_stableford, holes_played and, per hole that reached the scoring
\* code, the values of the loop's local variables.
RECURSIVE vh_loop(_, _, _, _, _, _)
vh_loop(i, holes_to_count, scores, holes_lookup, effective_handicap, acc) ==
  IF i > Len(holes_to_count) THEN acc
  ELSE
    LET hole_num == holes_to_count[i]
        hole_num_str == str(hole_num)
        next(a) == vh_loop(i + 1, holes_to_count, scores, holes_lookup,
                           effective_handicap, a)
    IN  IF hole_num_str \notin DOMAIN scores THEN next(acc)
        ELSE
          LET score == scores[hole_num_str]
              strokes == Get(score, "strokes", 0)
          IN  IF strokes <= 0 THEN next(acc)
              ELSE IF hole_num \notin DOMAIN holes_lookup THEN next(acc)
              ELSE
                LET hole_data == holes_lookup[hole_num]
                    par == Get(hole_data, "par", 4)
                    handicap_index == Get(hole_data, "handicap", 1)
                    strokes_received ==
                      strokes_received_vh(effective_handicap, handicap_index)
                    diff == diff_vh(strokes, strokes_received, par)
                    points == points_vh(diff)
                IN  next([total_stableford |-> acc.total_stableford + points,
                          holes_played |-> acc.holes_played + 1,
                          holes |-> acc.holes @@ (hole_num :>
                            [strokes |-> strokes, par |-> par,
                             handicap_index |-> handicap_index,
                             playing_hcp |-> effective_handicap,
                             strokes_received |-> strokes_received,
                             diff |-> diff, points |-> points])])

\* rounds.py 56, 61-72: the playing handicap the Stableford points are
\* computed with (legacy rounds stored 0).
effective_handicap_vh(user_player, od_handicap_index, handicap_percentage, tees) ==
  LET playing_handicap == Get(user_player, "playing_handicap", 0)
  IN  IF playing_handicap = 0 /\ od_handicap_index > 0 /\ Len(tees) > 0
      THEN LET tee_box == Get(user_player, "tee_box", "")
               matching_tee == matching_tee_of(tees, tee_box)
           IN  IF IsNone(matching_tee) THEN playing_handicap
               ELSE LET slope == Get(Val(matching_tee), "slope", 113)
                    IN  calculate_playing_handicap(
                          od_handicap_index, slope, handicap_percentage)
      ELSE playing_handicap

\* A mutation of normalized_stableford_vh: nine-hole totals are not doubled.
normalized_stableford_vh_plain(total_stableford, course_length) ==
  total_stableford

\* rounds.py 137-142: normalize to the 18-hole equivalent
normalized_stableford_vh(total_stableford, course_length) ==
  LET is_9_hole_round == course_length \in {"front9", "back9"}
  IN  IF is_9_hole_round THEN total_stableford * 2 ELSE total_stableford

\* A mutation of virtual_handicap_vh: the points above 36 are added.
virtual_handicap_vh_added(od_handicap_index, normalized_stableford) ==
  py_round1(od_handicap_index + (normalized_stableford - 36) * 100)

\* rounds.py 144-147: HV = Handicap Index - (Stableford Points - 36),
\* rounded to one decimal; od_handicap_index in hundredths, result in tenths.
virtual_handicap_vh(od_handicap_index, normalized_stableford) ==
  LET virtual_handicap == od_handicap_index - (normalized_stableford - 36) * 100
  IN  py_round1(virtual_handicap)

\* The result of a call that returned before the loop.
NoLocals(exit) ==
  [ret |-> None, exit |-> exit, od_handicap_index |-> None,
   effective_handicap |-> 0, total_stableford |-> 0, holes_played |-> 0,
   holes |-> <<>>]

\* rounds.py 27-147: calculate_virtual_handicap.  The value is a record
\* of the return value (ret, in tenths) and of the local variables.
calculate_virtual_handicap(players, course_length, holes_data, use_handicap, handicap_percentage, tees) ==
  IF Len(players) = 0 \/ Len(holes_data) = 0 THEN NoLocals("no_input")
  ELSE
    LET user_player == user_player_of(players)
        scores == Get(user_player, "scores", <<>>)
        od_handicap_index == Get(user_player, "od_handicap_index", Some(0))
    IN  IF DOMAIN scores = {} \/ IsNone(od_handicap_index)
        THEN NoLocals("no_scores_or_index")
        ELSE
          LET effective_handicap ==
                effective_handicap_vh(user_player, Val(od_handicap_index),
                                      handicap_percentage, tees)
              acc == vh_loop(1, holes_to_count_of(course_length), scores,
                             holes_lookup_of(holes_data), effective_handicap,
                             [total_stableford |-> 0, holes_played |-> 0,
                              holes |-> <<>>])
              locals == [od_handicap_index |-> od_handicap_index,
                         effective_handicap |-> effective_handicap,
                         total_stableford |-> acc.total_stableford,
                         holes_played |-> acc.holes_played,
                         holes |-> acc.holes]
          IN  IF acc.holes_played = 0
              THEN [ret |-> None, exit |-> "no_holes_played"] @@ locals
              ELSE
                LET normalized_stableford ==
                      normalized_stableford_vh(acc.total_stableford, course_length)
                IN  [ret |-> Some(virtual_handicap_vh(Val(od_handicap_index),
                                                      normalized_stableford)),
                     exit |-> "value"] @@ locals

-----------------------------------------------------------------------------
(* The backfill copy of the calculator, users.py *)

\* users.py 1186-1190
strokes_received_backfill(effective_handicap, hcp_index) ==
  IF effective_handicap > 0
  THEN LET base_strokes == effective_handicap \div 18
           remainder == effective_handicap % 18
       IN  base_strokes + (IF hcp_index <= remainder THEN 1 ELSE 0)
  ELSE 0

\* A mutation of points_backfill: a net score of three or more under par
\* scores 4 points.
points_backfill_capped(diff) ==
  IF diff <= -2 THEN 4
  ELSE IF diff = -1 THEN 3
  ELSE IF diff = 0 THEN 2
  ELSE IF diff = 1 THEN 1
  ELSE 0

\* users.py 1195-1206
points_backfill(diff) ==
  IF diff <= -3 THEN 5
  ELSE IF diff = -2 THEN 4
  ELSE IF diff = -1 THEN 3
  ELSE IF diff = 0 THEN 2
  ELSE IF diff = 1 THEN 1
  ELSE 0

\* users.py 1169-1209
RECURSIVE backfill_loop(_, _, _, _, _, _)
backfill_loop(i, holes_to_count, scores, holes_lookup, effective_handicap, acc) ==
  IF i > Len(holes_to_count) THEN acc
  ELSE
    LET hole_num == holes_to_count[i]
        hole_num_str == str(hole_num)
        next(a) == backfill_loop(i + 1, holes_to_count, scores, holes_lookup,
                                 effective_handicap, a)
    IN  IF hole_num_str \notin DOMAIN scores THEN next(acc)
        ELSE
          LET score == scores[hole_num_str]
              strokes == Get(score, "strokes", 0)
          IN  IF strokes <= 0 THEN next(acc)
              ELSE IF hole_num \notin DOMAIN holes_lookup THEN next(acc)
              ELSE
                LET hole_data == holes_lookup[hole_num]
                    par == Get(hole_data, "par", 4)
                    hcp_index == Get(hole_data, "handicap", 1)
                    strokes_received ==
                      strokes_received_backfill(effective_handicap, hcp_index)
                    net_score == strokes - strokes_received
                    diff == net_score - par
                    points == points_backfill(diff)
                IN  next([total_stableford |-> acc.total_stableford + points,
                          holes_played |-> acc.holes_played + 1,
                          holes |-> acc.holes @@ (hole_num :>
                            [strokes |-> strokes, par |-> par,
                             handicap_index |-> hcp_index,
                             playing_hcp |-> effective_handicap,
                             strokes_received |-> strokes_received,
                             diff |-> diff, points |-> points])])

\* users.py 1140, 1145-1156
effective_handicap_backfill(user_player, od_handicap_index, handicap_percentage, tees) ==
  LET playing_handicap == Get(user_player, "playing_handicap", 0)
  IN  IF playing_handicap = 0 /\ od_handicap_index > 0 /\ Len(tees) > 0
      THEN LET tee_box == Get(user_player, "tee_box", "")
               matching_tee == matching_tee_of(tees, tee_box)
           IN  IF IsNone(matching_tee) THEN playing_handicap
               ELSE LET slope == Get(Val(matching_tee), "slope", 113)
                    IN  calculate_playing_handicap_for_backfill(
                          od_handicap_index, slope, handicap_percentage)
      ELSE playing_handicap

\* users.py 1115-1217: calculate_vh_for_backfill
calculate_vh_for_backfill(players, course_length, holes_data, use_handicap, handicap_percentage, tees) ==
  IF Len(players) = 0 \/ Len(holes_data) = 0 THEN NoLocals("no_input")
  ELSE
    LET user_player == user_player_of(players)
        scores == Get(user_player, "scores", <<>>)
        od_handicap_index == Get(user_player, "od_handicap_index", Some(0))
    IN  IF DOMAIN scores = {} \/ IsNone(od_handicap_index)
        THEN NoLocals("no_scores_or_index")
        ELSE
          LET effective_handicap ==
                effective_handicap_backfill(user_player, Val(od_handicap_index),
                                            handicap_percentage, tees)
              acc == backfill_loop(1, holes_to_count_of(course_length), scores,
                                   holes_lookup_of(holes_data), effective_handicap,
                                   [total_stableford |-> 0, holes_played |-> 0,
                                    holes |-> <<>>])
              locals == [od_handicap_index |-> od_handicap_index,
                         effective_handicap |-> effective_handicap,
                         total_stableford |-> acc.total_stableford,
                         holes_played |-> acc.holes_played,
                         holes |-> acc.holes]
          IN  IF acc.holes_played = 0
              THEN [ret |-> None, exit |-> "no_holes_played"] @@ locals
              ELSE
                LET is_9_hole == course_length \in {"front9", "back9"}
                    normalized == IF is_9_hole THEN acc.total_stableford * 2
                                  ELSE acc.total_stableford
                    virtual_handicap100 ==
                      Val(od_handicap_index) - (normalized - 36) * 100
                IN  [ret |-> Some(py_round1(virtual_handicap100)),
                     exit |-> "value"] @@ locals

-----------------------------------------------------------------------------
(* 4.4 Statistics aggregator, users.py get_my_stats: the body of the loop  *)
(* over the finished rounds.                                               *)

\* users.py 596-600
strokes_received_stats(playing_hcp, handicap) ==
  IF playing_hcp > 0
  THEN LET base_strokes == playing_hcp \div 18
           remainder == playing_hcp % 18
       IN  base_strokes + (IF handicap <= remainder THEN 1 ELSE 0)
  ELSE 0

\* users.py 605-616
points_stats(diff) ==
  IF diff <= -3 THEN 5
  ELSE IF diff = -2 THEN 4
  ELSE IF diff = -1 THEN 3
  ELSE IF diff = 0 THEN 2
  ELSE IF diff = 1 THEN 1
  ELSE 0

\* A mutation of bucket_stats: the eagle bound is strict.
bucket_stats_strict(gross_diff) ==
  IF gross_diff < -2 THEN "eagles_or_better"
  ELSE IF gross_diff = -1 THEN "birdies"
  ELSE IF gross_diff = 0 THEN "pars"
  ELSE IF gross_diff = 1 THEN "bogeys"
  ELSE IF gross_diff = 2 THEN "double_bogeys"
  ELSE "triple_or_worse"

\* users.py 570-583: the score-distribution bucket of a hole
bucket_stats(gross_diff) ==
  IF gross_diff <= -2 THEN "eagles_or_better"
  ELSE IF gross_diff = -1 THEN "birdies"
  ELSE IF gross_diff = 0 THEN "pars"
  ELSE IF gross_diff = 1 THEN "bogeys"
  ELSE IF gross_diff = 2 THEN "double_bogeys"
  ELSE "triple_or_worse"

\* A mutation of gir_stats: the green must be reached in fewer than par - 2
\* strokes.
gir_stats_strict(strokes, putts, par) ==
  [counted |-> putts > 0, hit |-> putts > 0 /\ strokes - putts < par - 2]

\* users.py 585-592: whether the hole enters gir_total and gir_hit
gir_stats(strokes, putts, par) ==
  LET strokes_to_green == strokes - putts
      target_strokes == par - 2
  IN  [counted |-> putts > 0,
       hit |-> putts > 0 /\ strokes_to_green <= target_strokes]

\* users.py 541-618: the loop over holes_to_count of one round.  acc carries
\* the round totals and, per hole that reached the accumulations, the
\* values it contributed.
RECURSIVE stats_loop(_, _, _, _, _, _)
stats_loop(i, holes_to_count, scores, holes_data, user_player, acc) ==
  IF i > Len(holes_to_count) THEN acc
  ELSE
    LET hole_num == holes_to_count[i]
        hole_num_str == str(hole_num)
        next(a) == stats_loop(i + 1, holes_to_count, scores, holes_data,
                              user_player, a)
    IN  IF hole_num_str \notin DOMAIN scores THEN next(acc)
        ELSE
          LET score == scores[hole_num_str]
              strokes == Get(score, "strokes", 0)
              putts == Get(score, "putts", 0)
          IN  IF hole_num \notin DOMAIN holes_data THEN next(acc)
              ELSE
                LET hole_data == holes_data[hole_num]
                    par == Get(hole_data, "par", 4)
                    handicap == Get(hole_data, "handicap", 1)
                    gross_diff == strokes - par
                    gir_counted == gir_stats(strokes, putts, par).counted
                    gir == gir_stats(strokes, putts, par).hit
                    playing_hcp == Get(user_player, "playing_handicap", 0)
                    strokes_received == strokes_received_stats(playing_hcp, handicap)
                    net_score == strokes - strokes_received
                    diff == net_score - par
                    points == points_stats(diff)
                IN  next([round_par |-> acc.round_par + par,
                          round_strokes |-> acc.round_strokes + strokes,
                          round_putts |-> acc.round_putts + putts,
                          round_stableford |-> acc.round_stableford + points,
                          holes |-> acc.holes @@ (hole_num :>
                            [strokes |-> strokes, putts |-> putts, par |-> par,
                             handicap_index |-> handicap,
                             playing_hcp |-> playing_hcp,
                             bucket |-> bucket_stats(gross_diff),
                             gir_counted |-> gir_counted, gir_hit |-> gir,
                             strokes_received |-> strokes_received,
                             diff |-> diff, points |-> points])])

\* users.py 505-687: what one finished round contributes.  hvp_value is
\* in hundredths (a stored virtual_handicap is in tenths).
stats_round(round_data, courses_by_id) ==
  LET course_id == Get(round_data, "course_id", None)
      players == Get(round_data, "players", <<>>)
      skipped == [skipped |-> TRUE, holes |-> <<>>]
  IN  IF IsNone(course_id) \/ Val(course_id) \notin DOMAIN courses_by_id THEN skipped
      ELSE IF Len(players) = 0 THEN skipped
      ELSE
        LET course == courses_by_id[Val(course_id)]
            holes_data == holes_lookup_of(Get(course, "holes_data", <<>>))
            user_player == user_player_of(players)
            scores == Get(user_player, "scores", <<>>)
            course_length == Get(round_data, "course_length", "18")
            acc == stats_loop(1, holes_to_count_of(course_length), scores,
                              holes_data, user_player,
                              [round_par |-> 0, round_strokes |-> 0,
                               round_putts |-> 0, round_stableford |-> 0,
                               holes |-> <<>>])
            is_9_hole_round == course_length \in {"front9", "back9"}
            normalized_points == IF is_9_hole_round THEN acc.round_stableford * 2
                                 ELSE acc.round_stableford
            stableford_entry ==
              IF acc.round_stableford > 0
                 /\ Get(round_data, "game_mode", "") = "stableford"
              THEN Some(normalized_points) ELSE None
            stored_vh == Get(round_data, "virtual_handicap", None)
            od_handicap_index == Get(user_player, "od_handicap_index", Some(0))
            hvp_value ==
              IF ~IsNone(stored_vh) THEN Some(Val(stored_vh) * 10)
              ELSE IF acc.round_stableford > 0
              THEN IF ~IsNone(od_handicap_index)
                   THEN Some(Val(od_handicap_index) - (normalized_points - 36) * 100)
                   ELSE None
              ELSE None
        IN  [skipped |-> FALSE,
             is_9_hole_round |-> is_9_hole_round,
             round_date |-> Get(round_data, "round_date", <<>>),
             course_name |-> Get(round_data, "course_name", None),
             stableford_entry |-> stableford_entry,
             hvp_value |-> hvp_value] @@ acc

-----------------------------------------------------------------------------
(* 4.4 Statistics aggregator, users.py get_my_stats: dates, the lists and *)
(* counters accumulated over the rounds, and the returned UserStats.      *)
(*                                                                         *)
(* A round_date is a text: <<y, m, d>> stands for the ISO text             *)
(* "yyyy-mm-dd" (zero padded) and <<>> for the empty text.  A date is      *)
(* <<year, month, day>>.  Averages are returned in hundredths, the HVP     *)
(* fields and the percentages in tenths.                                   *)

\* date(y, m, 1).isoformat() and the comparison of two such texts
isoformat(d) == d

\* a >= b for round_date texts: character by character, which for zero
\* padded ISO texts is field by field; the empty text is below every other.
str_ge(a, b) ==
  IF b = <<>> THEN TRUE
  ELSE IF a = <<>> THEN FALSE
  ELSE \/ a[1] > b[1]
       \/ a[1] = b[1] /\ a[2] > b[2]
       \/ a[1] = b[1] /\ a[2] = b[2] /\ a[3] >= b[3]

\* d >= e for dates
date_ge(d, e) ==
  \/ d[1] > e[1]
  \/ d[1] = e[1] /\ d[2] > e[2]
  \/ d[1] = e[1] /\ d[2] = e[2] /\ d[3] >= e[3]

days_in_month(y, m) ==
  IF m \in {4, 6, 9, 11} THEN 30
  ELSE IF m = 2
  THEN (IF (y % 4 = 0 /\ y % 100 # 0) \/ y % 400 = 0 THEN 29 ELSE 28)
  ELSE 31

\* users.py 683-686: datetime.strptime(text, "%Y-%m-%d").date(), None when
\* the text is not a calendar date.
strptime(round_date_str) ==
  IF Len(round_date_str) # 3 THEN None
  ELSE LET y == round_date_str[1]
           m == round_date_str[2]
           d == round_date_str[3]
       IN  IF y \in 1..9999 /\ m \in 1..12 /\ d \in 1..days_in_month(y, m)
           THEN Some(<<y, m, d>>) ELSE None

RECURSIVE sum(_)
sum(xs) == IF Len(xs) = 0 THEN 0 ELSE xs[1] + sum(Tail(xs))

\* round(sum(xs) / len(xs), 2) if the list is non-empty and its mean is
\* not 0, else None (users.py 690-699 and 748-756)
avg2(xs) ==
  IF Len(xs) = 0 THEN None
  ELSE IF sum(xs) = 0 THEN None
  ELSE Some(py_round(sum(xs) * 100, Len(xs)))

\* round(mean, 1) if the list is non-empty and its mean is not 0, else
\* None, for values in hundredths (users.py 709-724 and 758-761)
hvp_avg(xs) ==
  IF Len(xs) = 0 THEN None
  ELSE IF sum(xs) = 0 THEN None
  ELSE Some(py_round(sum(xs), Len(xs) * 10))

\* round((count / total) * 100, 1) (users.py 733-742)
pct(count, total) ==
  IF total > 0 THEN Some(py_round(count * 1000, total)) ELSE None

\* users.py 541-552: the holes of one round that reached the
\* accumulations, in the order of holes_to_count.
hole_values(out, holes_to_count) ==
  LET hs == SelectSeq(holes_to_count, LAMBDA h : h \in DOMAIN out.holes)
  IN  [i \in 1..Len(hs) |-> out.holes[hs[i]]]

\* users.py 541-687: what a round that was not skipped adds to the lists,
\* counters and best-score trackers of lines 469-496; holes are the holes
\* of the round that reached the accumulations.
stats_accumulate(i, round_data, out, holes, acc) ==
  LET strokes_of(par) ==
        LET hs == SelectSeq(holes, LAMBDA h : h.par = par)
        IN  [k \in 1..Len(hs) |-> hs[k].strokes]
      count(b) == Len(SelectSeq(holes, LAMBDA h : h.bucket = b))
      info == [score |-> out.round_strokes,
               date |-> IF "round_date" \in DOMAIN round_data
                       THEN Some(round_data.round_date) ELSE None,
               course |-> out.course_name]
      nine == out.is_9_hole_round
      better(best) == out.round_strokes > 0
                      /\ (IsNone(best) \/ out.round_strokes < Val(best).score)
  IN  [acc EXCEPT
        !.par3_strokes = @ \o strokes_of(3),
        !.par4_strokes = @ \o strokes_of(4),
        !.par5_strokes = @ \o strokes_of(5),
        !.total_putts = IF out.round_putts > 0
                        THEN Append(@, out.round_putts) ELSE @,
        !.putts_9holes = IF nine /\ out.round_putts > 0
                         THEN Append(@, out.round_putts) ELSE @,
        !.putts_18holes = IF ~nine /\ out.round_putts > 0
                          THEN Append(@, out.round_putts) ELSE @,
        !.strokes_9holes = IF nine THEN Append(@, out.round_strokes) ELSE @,
        !.strokes_18holes = IF ~nine THEN Append(@, out.round_strokes) ELSE @,
        !.stableford_points_normalized =
           IF IsNone(out.stableford_entry) THEN @
           ELSE Append(@, Val(out.stableford_entry)),
        !.hvp_data =
           IF IsNone(out.hvp_value) THEN @
           ELSE Append(@, [hvp |-> Val(out.hvp_value),
                           d |-> strptime(out.round_date),
                           round |-> i]),
        !.best_score_18_info = IF ~nine /\ better(@) THEN Some(info) ELSE @,
        !.best_score_9_info = IF nine /\ better(@) THEN Some(info) ELSE @,
        !.eagles_or_better = @ + count("eagles_or_better"),
        !.birdies = @ + count("birdies"),
        !.pars = @ + count("pars"),
        !.bogeys = @ + count("bogeys"),
        !.double_bogeys = @ + count("double_bogeys"),
        !.triple_or_worse = @ + count("triple_or_worse"),
        !.total_holes_for_distribution = @ + Len(holes),
        !.gir_total = @ + Len(SelectSeq(holes, LAMBDA h : h.gir_counted)),
        !.gir_hit = @ + Len(SelectSeq(holes, LAMBDA h : h.gir_hit))]

\* users.py 505-687: one pass of the loop over the rounds, out being what
\* the round contributes: a round without course or players is skipped.
stats_rounds_step(i, round_data, out, acc) ==
  IF out.skipped THEN acc
  ELSE stats_accumulate(i, round_data, out,
         hole_values(out, holes_to_count_of(Get(round_data, "course_length", "18"))),
         acc)

\* users.py 505-687: the loop over the rounds.
RECURSIVE stats_rounds_loop(_, _, _, _)
stats_rounds_loop(i, rounds_list, courses_by_id, acc) ==
  IF i > Len(rounds_list) THEN acc
  ELSE stats_rounds_loop(i + 1, rounds_list, courses_by_id,
         stats_rounds_step(i, rounds_list[i],
                           stats_round(rounds_list[i], courses_by_id), acc))

\* users.py 469-496
stats_start ==
  [par3_strokes |-> <<>>, par4_strokes |-> <<>>, par5_strokes |-> <<>>,
   total_putts |-> <<>>, putts_9holes |-> <<>>, putts_18holes |-> <<>>,
   strokes_9holes |-> <<>>, strokes_18holes |-> <<>>,
   stableford_points_normalized |-> <<>>, hvp_data |-> <<>>,
   best_score_18_info |-> None, best_score_9_info |-> None,
   eagles_or_better |-> 0, birdies |-> 0, pars |-> 0, bogeys |-> 0,
   double_bogeys |-> 0, triple_or_worse |-> 0,
   total_holes_for_distribution |-> 0, gir_hit |-> 0, gir_total |-> 0]

\* users.py 711-717: the values of entries of hvp_data.
hvp_values(entries) == [i \in 1..Len(entries) |-> entries[i].hvp]

\* users.py 689-779: the UserStats built from the accumulators, with the
\* local accumulators under "locals".
user_stats(total_rounds, rounds_this_month, user_handicap_index, acc, today) ==
  LET current_month_start == <<today[1], today[2], 1>>
      current_quarter == (today[2] - 1) \div 3
      current_quarter_start == <<today[1], current_quarter * 3 + 1, 1>>
      current_year_start == <<today[1], 1, 1>>
      since(start) ==
        hvp_values(SelectSeq(acc.hvp_data,
                             LAMBDA e : ~IsNone(e.d) /\ date_ge(Val(e.d), start)))
      all_hvp_values == hvp_values(acc.hvp_data)
      month_hvp == since(current_month_start)
      quarter_hvp == since(current_quarter_start)
      year_hvp == since(current_year_start)
      total == acc.total_holes_for_distribution
      best(info, field) == IF IsNone(info) THEN None ELSE Val(info)[field]
  IN  [total_rounds |-> total_rounds,
       rounds_this_month |-> rounds_this_month,
       user_handicap_index |-> user_handicap_index,
       avg_strokes_par3 |-> avg2(acc.par3_strokes),
       avg_strokes_par4 |-> avg2(acc.par4_strokes),
       avg_strokes_par5 |-> avg2(acc.par5_strokes),
       avg_putts_per_round |-> avg2(acc.total_putts),
       avg_putts_9holes |-> avg2(acc.putts_9holes),
       avg_putts_18holes |-> avg2(acc.putts_18holes),
       avg_strokes_9holes |-> avg2(acc.strokes_9holes),
       avg_strokes_18holes |-> avg2(acc.strokes_18holes),
       avg_stableford_points |-> avg2(acc.stableford_points_normalized),
       hvp_total |-> hvp_avg(all_hvp_values),
       hvp_month |-> hvp_avg(month_hvp),
       hvp_quarter |-> hvp_avg(quarter_hvp),
       hvp_year |-> hvp_avg(year_hvp),
       best_round_score |->
         IF IsNone(acc.best_score_18_info) THEN None
         ELSE Some(Val(acc.best_score_18_info).score),
       best_round_date |-> best(acc.best_score_18_info, "date"),
       best_round_course |-> best(acc.best_score_18_info, "course"),
       best_round_9_score |->
         IF IsNone(acc.best_score_9_info) THEN None
         ELSE Some(Val(acc.best_score_9_info).score),
       best_round_9_date |-> best(acc.best_score_9_info, "date"),
       best_round_9_course |-> best(acc.best_score_9_info, "course"),
       eagles_or_better_pct |-> pct(acc.eagles_or_better, total),
       birdies_pct |-> pct(acc.birdies, total),
       pars_pct |-> pct(acc.pars, total),
       bogeys_pct |-> pct(acc.bogeys, total),
       double_bogeys_pct |-> pct(acc.double_bogeys, total),
       triple_or_worse_pct |-> pct(acc.triple_or_worse, total),
       gir_pct |-> pct(acc.gir_hit, acc.gir_total),
       locals |-> acc @@ [month_hvp |-> month_hvp,
                          quarter_hvp |-> quarter_hvp,
                          year_hvp |-> year_hvp]]

\* users.py 438-462: the UserStats returned when the user has no finished
\* round.
user_stats_empty(user_handicap_index) ==
  [total_rounds |-> 0, rounds_this_month |-> 0,
   user_handicap_index |-> user_handicap_index,
   locals |-> stats_start]
  @@ [f \in {"avg_strokes_par3", "avg_strokes_par4", "avg_strokes_par5",
             "avg_putts_per_round", "avg_putts_9holes",
             "avg_putts_18holes", "avg_strokes_9holes",
             "avg_strokes_18holes", "avg_stableford_points",
             "hvp_total", "hvp_month", "hvp_quarter", "hvp_year",
             "best_round_score", "best_round_date", "best_round_course",
             "best_round_9_score", "best_round_9_date",
             "best_round_9_course", "eagles_or_better_pct",
             "birdies_pct", "pars_pct", "bogeys_pct",
             "double_bogeys_pct", "triple_or_worse_pct", "gir_pct"}
        |-> None]

\* users.py 398-779: get_my_stats for the finished rounds of the user as the
\* rounds query returned them, the first saved player of the user and
\* today's date.
get_my_stats(saved_players, rounds_list, courses_by_id, today) ==
  LET user_handicap_index ==
        IF Len(saved_players) > 0
        THEN Get(saved_players[1], "handicap_index", None) ELSE None
      total_rounds == Len(rounds_list)
      month_start == isoformat(<<today[1], today[2], 1>>)
      rounds_this_month ==
        Len(SelectSeq(rounds_list,
                      LAMBDA r : str_ge(Get(r, "round_date", <<>>), month_start)))
  IN  IF total_rounds = 0
      THEN user_stats_empty(user_handicap_index)
      ELSE user_stats(total_rounds, rounds_this_month, user_handicap_index,
                      stats_rounds_loop(1, rounds_list, courses_by_id, stats_start),
                      today)

-----------------------------------------------------------------------------
(* Bounded inputs *)

\* The largest stored playing handicap drawn.
MaxPlayingHandicap == 20
\* Scorecards range from MaxUnder under par to MaxOver over par per hole.
MaxUnder == 3
MaxOver == 1

\* Handicap indexes, in hundredths: 0, 14.2, 14.25, 20.0, 54.0
HandicapIndexes == {0, 1420, 1425, 2000, 5400}
\* Tee slopes: the schema's bounds and the neutral slope
TeeSlopes == {55, 113, 155}
Percentages == {100, 75}
CourseLengths == {"18", "front9", "back9"}

\* The course: par 72 with four par 3s and four par 5s; the stroke indexes
\* are a permutation of 1..18.
Par(h) == IF h \in {3, 7, 12, 16} THEN 3
          ELSE IF h \in {5, 9, 14, 18} THEN 5 ELSE 4
StrokeIndex(h) == ((7 * h) % 18) + 1
HoleData(h) == [number |-> h, par |-> Par(h), handicap |-> StrokeIndex(h),
                distance |-> 350]
\* holes_data of a course with holes 1..n (n = 0: no hole metadata)
HolesData(n) == [h \in 1..n |-> HoleData(h)]

Tee(name, slope) == [name |-> name, slope |-> slope, rating |-> 72]

\* The scorecard of a player who takes d strokes over par on every hole and
\* one more on the k hardest holes, with an entry for the holes in entered.
Scorecard(k, d, entered) ==
  [key \in {str(h) : h \in entered} |->
     LET h == CHOOSE n \in entered : str(n) = key
         strokes == Par(h) + d + (IF StrokeIndex(h) <= k THEN 1 ELSE 0)
     IN  [strokes |-> strokes, putts |-> IF strokes > 2 THEN 2 ELSE 0]]

\* A player dict; od is an optional handicap index (None: stored null).
Player(name, od, playing_handicap, tee_box, scores) ==
  [id |-> name, name |-> name, od_handicap_index |-> od, tee_box |-> tee_box,
   team |-> None, playing_handicap |-> playing_handicap, scores |-> scores]

\* d without the key k
Without(d, k) == [x \in DOMAIN d \ {k} |-> d[x]]

Deltas == (0 - MaxUnder)..MaxOver
AllHoles == 1..18

CalcArgs(players, course_length, n, handicap_percentage, tees) ==
  [players |-> players, course_length |-> course_length,
   holes_data |-> HolesData(n), use_handicap |-> TRUE,
   handicap_percentage |-> handicap_percentage, tees |-> tees,
   game_mode |-> "stableford"]

\* Complete 18-hole cards for every stored playing handicap.
FullCards ==
  {CalcArgs(<<Player("P1", Some(1420), ph, "White", Scorecard(k, d, AllHoles))>>,
            "18", 18, 100, <<Tee("White", 113)>>) :
     ph \in 0..MaxPlayingHandicap, k \in 0..17, d \in Deltas}

\* Every course length and handicap index.
LengthCards ==
  {CalcArgs(<<Player("P1", Some(x[1]), x[2], "White", Scorecard(x[3], x[4], AllHoles))>>,
            x[5], 18, 100, <<Tee("White", 113)>>) :
     x \in HandicapIndexes \X {0, 9, 20} \X {0, 9} \X Deltas
           \X CourseLengths}

\* Partly entered cards, courses with missing hole metadata, a second player.
EntrySets == {{}, {1}, {18}, 1..9, 1..12, 10..18, AllHoles}
PartialCards ==
  {CalcArgs(<<Player("P1", Some(2000), 20, "White", Scorecard(0, x[1], x[2])),
              Player("P2", Some(540), 5, "White", Scorecard(5, 1, AllHoles))>>,
            x[3], x[4], 100, <<Tee("White", 113)>>) :
     x \in {0 - MaxUnder, 0} \X EntrySets \X CourseLengths \X {0, 9, 18}}

\* No players, a null handicap index, a player dict without the
\* od_handicap_index key, without the playing_handicap key.
DegenerateCards ==
  LET card == Scorecard(0, 0, AllHoles)
      tees == <<Tee("White", 113)>>
      p == Player("P1", Some(2000), 20, "White", card)
  IN  {CalcArgs(<<>>, "18", 18, 100, tees),
       CalcArgs(<<Player("P1", None, 20, "White", card)>>, "18", 18, 100, tees),
       CalcArgs(<<Without(p, "od_handicap_index")>>, "18", 18, 100, tees),
       CalcArgs(<<Without(p, "od_handicap_index")>>, "front9", 18, 100, tees),
       CalcArgs(<<Without(p, "playing_handicap")>>, "18", 18, 100, tees),
       CalcArgs(<<Without(p, "scores")>>, "18", 18, 100, tees)}

\* Legacy rounds: playing handicap stored as 0.
LegacyCards ==
  {CalcArgs(<<Player("P1", Some(x[1]), 0, x[2], Scorecard(0, 0, AllHoles))>>,
            "18", 18, x[3], x[4]) :
     x \in HandicapIndexes \X {"White", "Blue"} \X Percentages
           \X ({<<>>} \cup {<<Tee("Yellow", 113), Tee("White", s)>> : s \in TeeSlopes})}

CalcInputs ==
  FullCards \cup LengthCards \cup PartialCards \cup DegenerateCards \cup LegacyCards

\* Inputs of the handicap calculator: every handicap index 0.0 .. 54.0 on
\* the neutral slope, and every slope 55..155 for a few handicap indexes.
HandicapInputs ==
  {[handicap_index |-> 10 * t, slope |-> 113, percentage |-> 100] : t \in 0..540}
  \cup {[handicap_index |-> x[1], slope |-> x[2], percentage |-> x[3]] :
          x \in HandicapIndexes \X (55..155) \X (Percentages \cup {0})}

-----------------------------------------------------------------------------
(* Specification of the handicap calculator (pure function) *)

InitHandicap ==
  /\ profiles = <<>>
  /\ courses = <<>>
  /\ rounds = <<>>
  /\ inflight = <<>>
  /\ \E a \in HandicapInputs : call = [op |-> "args", args |-> a, out |-> None]

CalculatePlayingHandicap ==
  /\ UNCHANGED profiles
  /\ /\ call.op = "args"
     /\ call' = [op |-> "calculate_playing_handicap", args |-> call.args,
                 out |-> calculate_playing_handicap(
                           call.args.handicap_index, call.args.slope,
                           call.args.percentage)]
     /\ UNCHANGED <<courses, rounds, inflight>>

CalculatePlayingHandicapForBackfill ==
  /\ UNCHANGED profiles
  /\ /\ call.op = "args"
     /\ call' = [op |-> "calculate_playing_handicap_for_backfill", args |-> call.args,
                 out |-> calculate_playing_handicap_for_backfill(
                           call.args.handicap_index, call.args.slope,
                           call.args.percentage)]
     /\ UNCHANGED <<courses, rounds, inflight>>

NextHandicap == CalculatePlayingHandicap \/ CalculatePlayingHandicapForBackfill

SpecHandicap == InitHandicap /\ [][NextHandicap]_vars

-----------------------------------------------------------------------------
(* Specification of the virtual handicap calculators (pure functions) *)

InitCalc ==
  /\ profiles = <<>>
  /\ courses = <<>>
  /\ rounds = <<>>
  /\ inflight = <<>>
  /\ \E a \in CalcInputs : call = [op |-> "args", args |-> a, out |-> None]

CalculateVirtualHandicap ==
  /\ UNCHANGED profiles
  /\ /\ call.op = "args"
     /\ LET a == call.args
        IN  call' = [op |-> "calculate_virtual_handicap", args |-> a,
                     out |-> calculate_virtual_handicap(
                               a.players, a.course_length, a.holes_data,
                               a.use_handicap, a.handicap_percentage, a.tees)]
     /\ UNCHANGED <<courses, rounds, inflight>>

CalculateVhForBackfill ==
  /\ UNCHANGED profiles
  /\ /\ call.op = "args"
     /\ LET a == call.args
        IN  call' = [op |-> "calculate_vh_for_backfill", args |-> a,
                     out |-> calculate_vh_for_backfill(
                               a.players, a.course_length, a.holes_data,
                               a.use_handicap, a.handicap_percentage, a.tees)]
     /\ UNCHANGED <<courses, rounds, inflight>>

\* The round body of get_my_stats for a finished round made of the arguments.
StatsRound ==
  /\ UNCHANGED profiles
  /\ /\ call.op = "args"
     /\ LET a == call.args
            round_data == [course_id |-> Some("c1"), players |-> a.players,
                           course_length |-> a.course_length,
                           game_mode |-> a.game_mode,
                           round_date |-> <<2024, 5, 1>>, course_name |-> Some("c1"),
                           virtual_handicap |-> None]
            courses_by_id == ("c1" :> [holes_data |-> a.holes_data, tees |-> a.tees])
        IN  call' = [op |-> "get_my_stats", args |-> a,
                     out |-> stats_round(round_data, courses_by_id)]
     /\ UNCHANGED <<courses, rounds, inflight>>

NextCalc == CalculateVirtualHandicap \/ CalculateVhForBackfill \/ StatsRound

SpecCalc == InitCalc /\ [][NextCalc]_vars

-----------------------------------------------------------------------------
(* The rounds router: create_round and update_round on the rounds table *)

\* The rounds table holds at most MaxRounds rows; a row is written at most
\* MaxUpdates times after its insertion (its updated_at counts the writes).
MaxRounds == 1
MaxUpdates == 2

Users == {"u1", "u2"}
ShareCodes == {"ABCDEF", "GHJKLM"}

\* Apply the column values of update_data to a row.
Apply(row, update_data) == update_data @@ row

\* select(columns): the row restricted to the selected columns
Select(row, columns) == [c \in columns \cap DOMAIN row |-> row[c]]

\* The index of x in the list, 0 when it is not there.
index(xs, x) ==
  IF \E i \in DOMAIN xs : xs[i] = x
  THEN CHOOSE i \in DOMAIN xs : xs[i] = x /\ \A j \in 1..(i - 1) : xs[j] # x
  ELSE 0

\* A mutation of in: every user passes for a member of the list.
in_any(x, xs) == TRUE

\* rounds.py 365 and 1018: x in xs, for a list
in(x, xs) == index(xs, x) # 0

\* An optional request field as a one-column update, nothing when None.
Field(name, o) == IF IsNone(o) THEN <<>> ELSE (name :> Val(o))

\* A mutation of create_players: the handicap_percentage of the round is
\* not applied.
create_players_full(round_data, tees_dict) ==
  [i \in DOMAIN round_data.players |->
     LET player == round_data.players[i]
         tee == tees_dict[player.tee_box]
     IN  [id |-> player.name,
          name |-> player.name,
          od_handicap_index |-> Some(player.od_handicap_index),
          tee_box |-> player.tee_box,
          team |-> player.team,
          playing_handicap |->
            IF round_data.use_handicap
            THEN calculate_playing_handicap(player.od_handicap_index, tee.slope, 100)
            ELSE 0,
          scores |-> <<>>]]

\* rounds.py 265-292: the stored players of a new round.
create_players(round_data, tees_dict) ==
  [i \in DOMAIN round_data.players |->
     LET player == round_data.players[i]
         tee == tees_dict[player.tee_box]
         playing_handicap ==
           calculate_playing_handicap(
             player.od_handicap_index, tee.slope,
             IF round_data.use_handicap THEN round_data.handicap_percentage ELSE 0)
     IN  [id |-> player.name,
          name |-> player.name,
          od_handicap_index |-> Some(player.od_handicap_index),
          tee_box |-> player.tee_box,
          team |-> player.team,
          playing_handicap |-> IF round_data.use_handicap THEN playing_handicap ELSE 0,
          scores |-> <<>>]]

\* rounds.py 241-334: create_round.  The value is the response status
\* and the rounds table after the call.
create_round(round_data, current_user, courses_table, rounds_table) ==
  IF round_data.course_id \notin DOMAIN courses_table
  THEN [status |-> 404, rounds |-> rounds_table]
  ELSE
    LET course == courses_table[round_data.course_id]
        tees_dict == [n \in {course.tees[i].name : i \in DOMAIN course.tees} |->
                        course.tees[CHOOSE i \in DOMAIN course.tees :
                          /\ course.tees[i].name = n
                          /\ \A j \in DOMAIN course.tees :
                               course.tees[j].name = n => j <= i]]
    IN  IF \E i \in DOMAIN round_data.players :
             round_data.players[i].tee_box \notin DOMAIN tees_dict
        THEN [status |-> 400, rounds |-> rounds_table]
        ELSE
          LET current_hole ==
                IF round_data.course_length \in {"18", "front9"} THEN 1 ELSE 10
              new_round ==
                [id |-> Len(rounds_table) + 1,
                 user_id |-> current_user,
                 od_user_id |-> current_user,
                 course_id |-> Some(round_data.course_id),
                 course_name |-> Some(round_data.course_name),
                 round_date |-> round_data.round_date,
                 course_length |-> round_data.course_length,
                 game_mode |-> round_data.game_mode,
                 use_handicap |-> round_data.use_handicap,
                 handicap_percentage |-> round_data.handicap_percentage,
                 current_hole |-> current_hole,
                 completed_holes |-> <<>>,
                 players |-> create_players(round_data, tees_dict),
                 is_finished |-> FALSE,
                 virtual_handicap |-> None,
                 share_code |-> None,
                 collaborators |-> <<>>,
                 updated_at |-> 0]
          IN  [status |-> 201, rounds |-> Append(rounds_table, new_round)]

\* rounds.py 417-428: the outcomes of the loop that draws up to tries
\* random share codes and keeps the first one no round holds; None when
\* every draw collided.
RECURSIVE share_code_loop(_, _)
share_code_loop(tries, rounds_table) ==
  LET used == {c \in ShareCodes :
                 \E i \in DOMAIN rounds_table : rounds_table[i].share_code = Some(c)}
  IN  IF tries = 0 THEN {None}
      ELSE {Some(c) : c \in ShareCodes \ used}
           \cup (IF used = {} THEN {} ELSE share_code_loop(tries - 1, rounds_table))

\* rounds.py 382-406: the players and virtual_handicap columns of an update
\* that carries players.
players_update(existing, round_update, courses_table) ==
  IF IsNone(round_update.players) THEN <<>>
  ELSE
    LET players_data == Val(round_update.players)
        course_id == Get(existing, "course_id", None)
        course_length == Get(existing, "course_length", "18")
        use_handicap == Get(existing, "use_handicap", TRUE)
        handicap_percentage == Get(existing, "handicap_percentage", 100)
        computed ==
          IF ~IsNone(course_id) /\ Val(course_id) \in DOMAIN courses_table
             /\ Len(courses_table[Val(course_id)].holes_data) > 0
          THEN LET course == courses_table[Val(course_id)]
                   virtual_handicap ==
                     calculate_virtual_handicap(
                       players_data, course_length, course.holes_data,
                       use_handicap, handicap_percentage, course.tees).ret
               IN  IF ~IsNone(virtual_handicap)
                   THEN ("virtual_handicap" :> virtual_handicap) ELSE <<>>
          ELSE <<>>
    IN  ("players" :> players_data) @@ computed

\* rounds.py 347-360: the selected columns of the round, None when there
\* is no such round.
update_round_select(round_id, rounds_table) ==
  IF round_id \notin DOMAIN rounds_table THEN None
  ELSE Some(Select(rounds_table[round_id],
                   {"user_id", "collaborators", "share_code",
                    "course_id", "course_length"}))

\* rounds.py 362-450: update_round from the permission check on, for the
\* columns selected before and the rounds table at the time of the write.
\* code is the outcome of the share code loop should the handler run it.
update_round_write(existing, round_id, round_update, current_user, courses_table, rounds_table, code) ==
  LET user_id == existing.user_id
      collaborators == existing.collaborators
      is_owner == user_id = current_user
      is_collaborator == in(current_user, collaborators)
  IN  IF ~is_owner /\ ~is_collaborator
      THEN [status |-> 403, rounds |-> rounds_table]
      ELSE
        LET enabling == /\ ~IsNone(round_update.share_enabled) /\ is_owner
                        /\ Val(round_update.share_enabled)
                        /\ IsNone(existing.share_code)
            disabling == /\ ~IsNone(round_update.share_enabled) /\ is_owner
                         /\ ~Val(round_update.share_enabled)
            sharing == IF enabling THEN ("share_code" :> code)
                       ELSE IF disabling
                       THEN [share_code |-> None, collaborators |-> <<>>]
                       ELSE <<>>
            update_data ==
              sharing
              @@ Field("is_finished", round_update.is_finished)
              @@ players_update(existing, round_update, courses_table)
              @@ Field("completed_holes", round_update.completed_holes)
              @@ Field("current_hole", round_update.current_hole)
        IN  IF enabling /\ IsNone(code)
            THEN [status |-> 500, rounds |-> rounds_table]
            ELSE IF DOMAIN update_data = {}
            THEN [status |-> 400, rounds |-> rounds_table]
            ELSE IF round_id \notin DOMAIN rounds_table
            THEN [status |-> 404, rounds |-> rounds_table]
            ELSE [status |-> 200,
                  rounds |-> [rounds_table EXCEPT ![round_id] =
                    Apply([@ EXCEPT !.updated_at = @ + 1], update_data)]]

\* rounds.py 337-457: update_round served without another request in
\* between.  The value is the response status and the rounds table after
\* the call.
update_round(round_id, round_update, current_user, courses_table, rounds_table, code) ==
  LET existing == update_round_select(round_id, rounds_table)
  IN  IF IsNone(existing)
      THEN [status |-> 404, rounds |-> rounds_table]
      ELSE update_round_write(Val(existing), round_id, round_update,
                              current_user, courses_table, rounds_table, code)

-----------------------------------------------------------------------------
(* The rounds router: get_round and the shared rounds endpoints.  Each     *)
(* handler is translated statement by statement: what it selects, and what *)
(* it does with what it selected on the rounds table at the time of its    *)
(* update.  The value of a handler is the response status and the rounds   *)
(* table after it.                                                         *)

\* rounds.py 1025: xs.remove(x) removes the first x of the list
remove(xs, x) ==
  [i \in 1..(Len(xs) - 1) |-> IF i < index(xs, x) THEN xs[i] ELSE xs[i + 1]]

\* rounds.py 808: str.upper() on the share codes requests carry
upper(share_code) ==
  CASE share_code = "abcdef" -> "ABCDEF"
    [] share_code = "ghjklm" -> "GHJKLM"
    [] OTHER -> share_code

\* rounds.py 194-238: get_round
get_round(round_id, current_user, rounds_table) ==
  IF round_id \notin DOMAIN rounds_table THEN [status |-> 404]
  ELSE
    LET round_data == rounds_table[round_id]
        user_id == round_data.user_id
        collaborators == Get(round_data, "collaborators", <<>>)
    IN  IF user_id # current_user /\ ~in(current_user, collaborators)
        THEN [status |-> 403]
        ELSE [status |-> 200,
              data |-> ("is_owner" :> (user_id = current_user)) @@ round_data]

\* rounds.py 807-817: the round holding the share code.  single() gives the
\* one row found; with no row the handler takes its not-found branch, and
\* with several rows the request fails.
join_round_select(share_code, rounds_table) ==
  LET hits == {i \in DOMAIN rounds_table :
                 rounds_table[i].share_code = Some(upper(share_code))}
  IN  IF hits = {} THEN [found |-> 0]
      ELSE IF Cardinality(hits) > 1 THEN [found |-> 2]
      ELSE [found |-> 1,
            data |-> Select(rounds_table[CHOOSE i \in hits : TRUE],
                            {"id", "user_id", "collaborators", "is_finished"})]

\* rounds.py 823-856: join_round_by_code from the membership checks on
join_round_write(round_data, current_user, rounds_table) ==
  LET round_id == round_data.id
      owner_id == round_data.user_id
      collaborators == round_data.collaborators
  IN  IF owner_id = current_user
      THEN [status |-> 200, message |-> "owner", rounds |-> rounds_table]
      ELSE IF in(current_user, collaborators)
      THEN [status |-> 200, message |-> "already", rounds |-> rounds_table]
      ELSE IF round_data.is_finished
      THEN [status |-> 400, message |-> "finished", rounds |-> rounds_table]
      ELSE [status |-> 200, message |-> "joined",
            rounds |-> [rounds_table EXCEPT ![round_id] =
              Apply(@, [collaborators |-> Append(collaborators, current_user)])]]

\* rounds.py 798-863: join_round_by_code served without another request in
\* between
join_round_by_code(share_code, current_user, rounds_table) ==
  LET response == join_round_select(share_code, rounds_table)
  IN  IF response.found = 0
      THEN [status |-> 404, message |-> "not found", rounds |-> rounds_table]
      ELSE IF response.found = 2
      THEN [status |-> 500, message |-> "error", rounds |-> rounds_table]
      ELSE join_round_write(response.data, current_user, rounds_table)

\* rounds.py 874-901: what enable_round_sharing decides from its select:
\* the response status when the handler answers without an update, 0 when
\* it goes on to draw a share code.
enable_round_sharing_select(round_id, current_user, rounds_table) ==
  IF round_id \notin DOMAIN rounds_table THEN 404
  ELSE LET existing == Select(rounds_table[round_id], {"user_id", "share_code"})
       IN  IF existing.user_id # current_user THEN 403
           ELSE IF ~IsNone(existing.share_code) THEN 200
           ELSE 0

\* rounds.py 905-908 and 418-424: the check of one drawn code: no round
\* holds it
share_code_check(code, rounds_table) ==
  ~\E i \in DOMAIN rounds_table : rounds_table[i].share_code = Some(code)

\* rounds.py 915-925: the update of enable_round_sharing
enable_round_sharing_write(round_id, code, rounds_table) ==
  [status |-> 200,
   rounds |-> [rounds_table EXCEPT ![round_id] = Apply(@, [share_code |-> Some(code)])]]

\* rounds.py 866-931: enable_round_sharing served without another request
\* in between; code is the outcome of the loop that draws the share code.
enable_round_sharing(round_id, current_user, rounds_table, code) ==
  LET decided == enable_round_sharing_select(round_id, current_user, rounds_table)
  IN  IF decided # 0 THEN [status |-> decided, rounds |-> rounds_table]
      ELSE IF IsNone(code) THEN [status |-> 500, rounds |-> rounds_table]
      ELSE enable_round_sharing_write(round_id, Val(code), rounds_table)

\* rounds.py 935-982: disable_round_sharing
disable_round_sharing(round_id, current_user, rounds_table) ==
  IF round_id \notin DOMAIN rounds_table
  THEN [status |-> 404, rounds |-> rounds_table]
  ELSE IF rounds_table[round_id].user_id # current_user
  THEN [status |-> 403, rounds |-> rounds_table]
  ELSE [status |-> 200,
        rounds |-> [rounds_table EXCEPT ![round_id] =
          Apply(@, [share_code |-> None, collaborators |-> <<>>])]]

\* rounds.py 994-1007: the columns leave_shared_round selects
leave_shared_round_select(round_id, rounds_table) ==
  IF round_id \notin DOMAIN rounds_table THEN None
  ELSE Some(Select(rounds_table[round_id], {"user_id", "collaborators"}))

\* rounds.py 1009-1028: leave_shared_round from the owner check on
leave_shared_round_write(existing, round_id, current_user, rounds_table) ==
  IF existing.user_id = current_user
  THEN [status |-> 400, message |-> "owner", rounds |-> rounds_table]
  ELSE
    LET collaborators == existing.collaborators
    IN  IF ~in(current_user, collaborators)
        THEN [status |-> 400, message |-> "not joined", rounds |-> rounds_table]
        ELSE [status |-> 200, message |-> "left",
              rounds |-> [rounds_table EXCEPT ![round_id] =
                Apply(@, [collaborators |-> remove(collaborators, current_user)])]]

\* rounds.py 985-1035: leave_shared_round served without another request
\* in between
leave_shared_round(round_id, current_user, rounds_table) ==
  LET existing == leave_shared_round_select(round_id, rounds_table)
  IN  IF IsNone(existing)
      THEN [status |-> 404, message |-> "not found", rounds |-> rounds_table]
      ELSE leave_shared_round_write(Val(existing), round_id, current_user,
                                    rounds_table)

-----------------------------------------------------------------------------
(* The users router: update_user.  A profile is a row of the table          *)
(* "profiles"; the caller is the UserResponse get_current_user builds from  *)
(* the caller's profile.                                                     *)

\* schemas.py 50-55: UserUpdate
UserUpdate(display_name, role, status, permissions, linked_player_id) ==
  [display_name |-> display_name, role |-> role, status |-> status,
   permissions |-> permissions, linked_player_id |-> linked_player_id]

\* dependencies.py 29-47: the caller's id and the role of their profile
get_current_user(id, profiles_table) ==
  [id |-> id, role |-> Get(profiles_table[id], "role", "user")]

\* users.py 211: the fields of the request that are not None
update_user_data(update) ==
  Field("display_name", update.display_name)
  @@ Field("role", update.role)
  @@ Field("status", update.status)
  @@ Field("permissions", update.permissions)
  @@ Field("linked_player_id", update.linked_player_id)

\* The owner check of update_user taken by everyone: the mutant.
update_user_owner_check_any(update, current_user) == FALSE

\* users.py 179-191: only the owner changes role and permissions
update_user_owner_check(update, current_user) ==
  \/ ~IsNone(update.role) /\ current_user.role # "owner"
  \/ ~IsNone(update.permissions) /\ current_user.role # "owner"

\* users.py 159-249: update_user.  The value is the response status and the
\* profiles table after the call.
update_user(user_id, update, current_user, profiles_table) ==
  IF user_id \in {"me", "owner"}
  THEN [status |-> 404, profiles |-> profiles_table]
  ELSE IF current_user.id # user_id /\ current_user.role \notin {"admin", "owner"}
  THEN [status |-> 403, profiles |-> profiles_table]
  ELSE IF update_user_owner_check(update, current_user)
  THEN [status |-> 403, profiles |-> profiles_table]
  ELSE IF ~IsNone(update.status) /\ current_user.role \notin {"admin", "owner"}
  THEN [status |-> 403, profiles |-> profiles_table]
  ELSE IF update.role = Some("owner")
  THEN [status |-> 403, profiles |-> profiles_table]
  ELSE
    LET update_data == update_user_data(update)
    IN  IF DOMAIN update_data = {}
        THEN [status |-> 400, profiles |-> profiles_table]
        ELSE IF user_id \notin DOMAIN profiles_table
        THEN [status |-> 404, profiles |-> profiles_table]
        ELSE [status |-> 200,
              profiles |-> [profiles_table EXCEPT ![user_id] =
                              Apply(@, update_data)]]

\* A profile row.
Profile(id, role) ==
  [id |-> id, display_name |-> None, role |-> role, status |-> "active",
   permissions |-> <<>>, linked_player_id |-> None]

\* The profiles table: the owner and a user.
ProfileTable ==
  ("o1" :> Profile("o1", "owner")) @@ ("u1" :> Profile("u1", "user"))

\* The requests: each field alone, with every role, and two fields together.
UserUpdates ==
  {UserUpdate(Some("Ann"), None, None, None, None),
   UserUpdate(None, Some("user"), None, None, None),
   UserUpdate(None, Some("admin"), None, None, None),
   UserUpdate(None, Some("owner"), None, None, None),
   UserUpdate(None, None, Some("disabled"), None, None),
   UserUpdate(None, None, None, Some(<<>>), None),
   UserUpdate(None, None, None, Some(<<"courses.create">>), None),
   UserUpdate(Some("Ann"), Some("owner"), None, None, None),
   UserUpdate(None, None, None, None, None)}

\* The ids a request can name: the profiles, the reserved word the route
\* /{user_id} receives, and an id without profile.
UserIds == DOMAIN ProfileTable \cup {"owner", "zz"}

-----------------------------------------------------------------------------
(* Specification of the rounds router *)

\* The courses table: one 18-hole course with two tees.
CourseTable ==
  ("c1" :> [id |-> "c1", name |-> "Links", holes_data |-> HolesData(18),
            tees |-> <<Tee("Yellow", 126), Tee("White", 113)>>])

PlayerCreate(name, od_handicap_index, tee_box) ==
  [name |-> name, od_handicap_index |-> od_handicap_index, tee_box |-> tee_box,
   team |-> None]

RoundCreate(course_id, course_length, use_handicap, handicap_percentage, players) ==
  [course_id |-> course_id, course_name |-> "Links", round_date |-> <<2024, 5, 1>>,
   course_length |-> course_length, game_mode |-> "stableford",
   use_handicap |-> use_handicap, handicap_percentage |-> handicap_percentage,
   players |-> players]

\* The create requests: every course length, handicap mode and percentage
\* for two players on existing tees; an unknown tee; an unknown course.
RoundCreates ==
  LET two == <<PlayerCreate("P1", 2000, "White"), PlayerCreate("P2", 540, "Yellow")>>
  IN  {RoundCreate("c1", x[1], x[2], x[3], two) :
         x \in CourseLengths \X BOOLEAN \X Percentages}
      \cup {RoundCreate("c1", "18", TRUE, 100,
                        <<PlayerCreate("P1", 2000, "White"),
                          PlayerCreate("P2", 540, "Blue")>>),
            RoundCreate("c0", "18", TRUE, 100, two)}

RoundUpdate(current_hole, completed_holes, players, is_finished, share_enabled) ==
  [current_hole |-> current_hole, completed_holes |-> completed_holes,
   players |-> players, is_finished |-> is_finished,
   share_enabled |-> share_enabled]

\* The stored players with new scorecards.
WithScores(players, card) ==
  [i \in DOMAIN players |->
     [players[i] EXCEPT !.scores = IF i = 1 THEN card ELSE Scorecard(5, 1, 1..9)]]

\* The update requests for a stored row: new scores (a full card, a front
\* nine, no scores), hole progress, finishing with the final scores,
\* sharing on and off, and a request with no field.
RoundUpdates(row) ==
  {RoundUpdate(None, None, Some(WithScores(row.players, card)), None, None) :
     card \in {Scorecard(0, 0, AllHoles), Scorecard(3, MaxOver, 1..9), <<>>}}
  \cup {RoundUpdate(Some(2), Some(<<1>>), None, None, None),
        RoundUpdate(None, None, Some(WithScores(row.players, Scorecard(0, 0, AllHoles))),
                    Some(TRUE), None),
        RoundUpdate(None, None, None, None, Some(TRUE)),
        RoundUpdate(None, None, None, None, Some(FALSE)),
        RoundUpdate(None, None, None, None, None)}

Init ==
  /\ profiles = ProfileTable
  /\ courses = CourseTable
  /\ rounds = <<>>
  /\ inflight = <<>>
  /\ call = [op |-> "init"]

CreateRound ==
  /\ UNCHANGED profiles
  /\ \E round_data \in RoundCreates :
       /\ Len(rounds) < MaxRounds
       /\ LET r == create_round(round_data, "u1", courses, rounds)
          IN  /\ rounds' = r.rounds
              /\ call' = [op |-> "create_round", user |-> "u1",
                          round_id |-> Len(r.rounds), args |-> round_data,
                          status |-> r.status]
       /\ UNCHANGED <<courses, inflight>>

UpdateRound ==
  /\ UNCHANGED profiles
  /\ \E current_user \in Users, round_id \in 1..MaxRounds :
       \E round_update \in (IF round_id \in DOMAIN rounds
                            THEN RoundUpdates(rounds[round_id])
                            ELSE {RoundUpdate(None, None, None, None, None)}),
          code \in share_code_loop(10, rounds) :
         /\ round_id \in DOMAIN rounds => rounds[round_id].updated_at < MaxUpdates
         /\ LET r == update_round(round_id, round_update, current_user,
                                  courses, rounds, code)
            IN  /\ rounds' = r.rounds
                /\ call' = [op |-> "update_round", user |-> current_user,
                            round_id |-> round_id, args |-> round_update,
                            status |-> r.status]
         /\ UNCHANGED <<courses, inflight>>

Next == CreateRound \/ UpdateRound

Spec == Init /\ [][Next]_vars

-----------------------------------------------------------------------------
(* Specification of update_round under concurrent requests: the handler   *)
(* issues its select and its update as separate statements, and the store *)
(* serves the statements of several workers in any order.                 *)

Workers == {"w1", "w2"}

\* The requests the workers serve: new scores for the stored players (a
\* full card, a front nine, no scores) and hole progress.
ConcurrentUpdates(row) ==
  {RoundUpdate(None, None, Some(WithScores(row.players, card)), None, None) :
     card \in {Scorecard(0, 0, AllHoles), Scorecard(3, MaxOver, 1..9), <<>>}}
  \cup {RoundUpdate(Some(2), Some(<<1>>), None, None, None)}

\* The store holds one round, as create_round left it.
InitConcurrent ==
  /\ profiles = ProfileTable
  /\ courses = CourseTable
  /\ \E round_data \in RoundCreates :
       /\ round_data.course_length = "18"
       /\ LET r == create_round(round_data, "u1", CourseTable, <<>>)
          IN  /\ r.status = 201
              /\ rounds = r.rounds
              /\ call = [op |-> "create_round", user |-> "u1", round_id |-> 1,
                         args |-> round_data, status |-> r.status]
  /\ inflight = <<>>

\* rounds.py 347-360: a worker takes a request and selects the round.
UpdateRoundSelect ==
  /\ UNCHANGED profiles
  /\ \E w \in Workers \ DOMAIN inflight, round_id \in DOMAIN rounds :
       \E round_update \in ConcurrentUpdates(rounds[round_id]) :
         /\ rounds[round_id].updated_at
              + Cardinality({v \in DOMAIN inflight : inflight[v].round_id = round_id})
              < MaxUpdates
         /\ inflight' = inflight @@
              (w :> [round_id |-> round_id, round_update |-> round_update,
                     current_user |-> "u1",
                     existing |-> update_round_select(round_id, rounds),
                     written |-> rounds[round_id].updated_at])
         /\ UNCHANGED <<courses, rounds, call>>

\* rounds.py 362-457: the worker computes update_data from what it selected
\* and issues the update.
UpdateRoundWrite ==
  /\ UNCHANGED profiles
  /\ \E w \in DOMAIN inflight :
       LET req == inflight[w]
           r == update_round_write(Val(req.existing), req.round_id, req.round_update,
                                   req.current_user, courses, rounds, None)
       IN  /\ rounds' = r.rounds
           /\ call' = [op |-> "update_round", user |-> req.current_user,
                       round_id |-> req.round_id, args |-> req.round_update,
                       status |-> r.status, worker |-> w,
                       overlapped |-> rounds[req.round_id].updated_at # req.written]
           /\ inflight' = [v \in DOMAIN inflight \ {w} |-> inflight[v]]
           /\ UNCHANGED courses

NextConcurrent == UpdateRoundSelect \/ UpdateRoundWrite

SpecConcurrent == InitConcurrent /\ [][NextConcurrent]_vars

-----------------------------------------------------------------------------
(* Specification of the shared rounds endpoints, get_round and update_round *)
(* on one round of user u1, the requests served one at a time.              *)

\* The users that send requests: the owner of the round and two others.
ShareUsers == {"u1", "u2", "u3"}

\* The share codes join requests carry: codes as generated, and one typed
\* in lower case.
JoinCodes == ShareCodes \cup {"abcdef"}

\* The update requests to a shared round: new scores, hole progress with
\* finishing, sharing on and off, hole progress with sharing off.
ShareUpdates(row) ==
  {RoundUpdate(None, None, Some(WithScores(row.players, Scorecard(0, 0, AllHoles))),
               None, None),
   RoundUpdate(Some(2), Some(<<1>>), None, Some(TRUE), None),
   RoundUpdate(None, None, None, None, Some(TRUE)),
   RoundUpdate(None, None, None, None, Some(FALSE)),
   RoundUpdate(Some(2), Some(<<1>>), None, None, Some(FALSE))}

\* The rounds table after create_round by u1 for each request of the list.
RECURSIVE Created(_)
Created(requests) ==
  IF Len(requests) = 0 THEN <<>>
  ELSE create_round(requests[Len(requests)], "u1", CourseTable,
                    Created(SubSeq(requests, 1, Len(requests) - 1))).rounds

OnePlayerRound ==
  RoundCreate("c1", "18", TRUE, 100, <<PlayerCreate("P1", 2000, "White")>>)

InitShare ==
  /\ profiles = ProfileTable
  /\ courses = CourseTable
  /\ rounds = Created(<<OnePlayerRound>>)
  /\ call = [op |-> "init"]
  /\ inflight = <<>>

GetRound ==
  /\ UNCHANGED profiles
  /\ \E current_user \in ShareUsers, round_id \in 1..(Len(rounds) + 1) :
       /\ call' = [op |-> "get_round", user |-> current_user, round_id |-> round_id,
                   status |-> get_round(round_id, current_user, rounds).status]
       /\ UNCHANGED <<courses, rounds, inflight>>

JoinRoundByCode ==
  /\ UNCHANGED profiles
  /\ \E current_user \in ShareUsers, share_code \in JoinCodes :
       LET r == join_round_by_code(share_code, current_user, rounds)
       IN  /\ rounds' = r.rounds
           /\ call' = [op |-> "join_round_by_code", user |-> current_user,
                       share_code |-> share_code, status |-> r.status,
                       message |-> r.message]
           /\ UNCHANGED <<courses, inflight>>

EnableRoundSharing ==
  /\ UNCHANGED profiles
  /\ \E current_user \in ShareUsers, round_id \in 1..(Len(rounds) + 1) :
       \E code \in share_code_loop(10, rounds) :
         LET r == enable_round_sharing(round_id, current_user, rounds, code)
         IN  /\ rounds' = r.rounds
             /\ call' = [op |-> "enable_round_sharing", user |-> current_user,
                         round_id |-> round_id, status |-> r.status]
             /\ UNCHANGED <<courses, inflight>>

DisableRoundSharing ==
  /\ UNCHANGED profiles
  /\ \E current_user \in ShareUsers, round_id \in 1..(Len(rounds) + 1) :
       LET r == disable_round_sharing(round_id, current_user, rounds)
       IN  /\ rounds' = r.rounds
           /\ call' = [op |-> "disable_round_sharing", user |-> current_user,
                       round_id |-> round_id, status |-> r.status]
           /\ UNCHANGED <<courses, inflight>>

LeaveSharedRound ==
  /\ UNCHANGED profiles
  /\ \E current_user \in ShareUsers, round_id \in 1..(Len(rounds) + 1) :
       LET r == leave_shared_round(round_id, current_user, rounds)
       IN  /\ rounds' = r.rounds
           /\ call' = [op |-> "leave_shared_round", user |-> current_user,
                       round_id |-> round_id, status |-> r.status,
                       message |-> r.message]
           /\ UNCHANGED <<courses, inflight>>

UpdateSharedRound ==
  /\ UNCHANGED profiles
  /\ \E current_user \in ShareUsers, round_id \in DOMAIN rounds :
       \E round_update \in ShareUpdates(rounds[round_id]),
          code \in share_code_loop(10, rounds) :
         /\ rounds[round_id].updated_at < MaxUpdates
         /\ LET r == update_round(round_id, round_update, current_user,
                                  courses, rounds, code)
            IN  /\ rounds' = r.rounds
                /\ call' = [op |-> "update_round", user |-> current_user,
                            round_id |-> round_id, args |-> round_update,
                            status |-> r.status]
         /\ UNCHANGED <<courses, inflight>>

NextShare ==
  \/ GetRound
  \/ JoinRoundByCode
  \/ EnableRoundSharing
  \/ DisableRoundSharing
  \/ LeaveSharedRound
  \/ UpdateSharedRound

SpecShare == InitShare /\ [][NextShare]_vars

-----------------------------------------------------------------------------
(* Specifications of the shared rounds endpoints under concurrent requests: *)
(* a handler issues its select, the checks of the share codes it draws and  *)
(* its update as separate statements, and the store serves the statements   *)
(* of several workers in any order.  inflight holds, per worker, the        *)
(* request it serves and what its handler has read so far.                  *)

\* The worker has answered its request.
Answer(w, response) ==
  /\ call' = response @@ [worker |-> w]
  /\ inflight' = [v \in DOMAIN inflight \ {w} |-> inflight[v]]

\* The worker goes on with its request.
Continue(w, request) ==
  /\ inflight' = (w :> request) @@ inflight
  /\ UNCHANGED <<rounds, call>>

\* rounds.py 807-848: a worker takes a join request, selects the round by
\* its code and answers unless the user is to be added.
JoinSelect ==
  /\ UNCHANGED profiles
  /\ \E w \in Workers \ DOMAIN inflight, current_user \in {"u2", "u3"},
        share_code \in ShareCodes :
       LET response == join_round_select(share_code, rounds)
           r == join_round_by_code(share_code, current_user, rounds)
           request == [op |-> "join_round_by_code", user |-> current_user,
                       share_code |-> share_code]
       IN  /\ IF response.found = 1 /\ r.message = "joined"
              THEN Continue(w, request @@ [round_data |-> response.data])
              ELSE /\ Answer(w, request @@ [status |-> r.status, message |-> r.message])
                   /\ UNCHANGED rounds
           /\ UNCHANGED courses

\* rounds.py 850-856: the worker writes the collaborators it read with the
\* user appended.
JoinWrite ==
  /\ UNCHANGED profiles
  /\ \E w \in DOMAIN inflight :
       /\ inflight[w].op = "join_round_by_code"
       /\ LET req == inflight[w]
              r == join_round_write(req.round_data, req.user, rounds)
          IN  /\ rounds' = r.rounds
              /\ Answer(w, [op |-> req.op, user |-> req.user,
                            share_code |-> req.share_code,
                            round_id |-> req.round_data.id,
                            status |-> r.status, message |-> r.message])
       /\ UNCHANGED courses

\* rounds.py 994-1023: a worker takes a leave request, selects the round
\* and answers unless the user is to be removed.
LeaveSelect ==
  /\ UNCHANGED profiles
  /\ \E w \in Workers \ DOMAIN inflight, current_user \in {"u2", "u3"},
        round_id \in DOMAIN rounds :
       LET existing == leave_shared_round_select(round_id, rounds)
           r == leave_shared_round(round_id, current_user, rounds)
           request == [op |-> "leave_shared_round", user |-> current_user,
                       round_id |-> round_id]
       IN  /\ IF r.message = "left"
              THEN Continue(w, request @@ [existing |-> Val(existing)])
              ELSE /\ Answer(w, request @@ [status |-> r.status, message |-> r.message])
                   /\ UNCHANGED rounds
           /\ UNCHANGED courses

\* rounds.py 1025-1028: the worker writes the collaborators it read without
\* the user.
LeaveWrite ==
  /\ UNCHANGED profiles
  /\ \E w \in DOMAIN inflight :
       /\ inflight[w].op = "leave_shared_round"
       /\ LET req == inflight[w]
              r == leave_shared_round_write(req.existing, req.round_id, req.user, rounds)
          IN  /\ rounds' = r.rounds
              /\ Answer(w, [op |-> req.op, user |-> req.user,
                            round_id |-> req.round_id,
                            status |-> r.status, message |-> r.message])
       /\ UNCHANGED courses

\* rounds.py 944-963: a worker takes the owner's request to disable sharing
\* and checks the ownership.
DisableSelect ==
  /\ UNCHANGED profiles
  /\ \E w \in Workers \ DOMAIN inflight, round_id \in DOMAIN rounds :
       /\ Continue(w, [op |-> "disable_round_sharing", user |-> rounds[round_id].user_id,
                       round_id |-> round_id])
       /\ UNCHANGED courses

\* rounds.py 965-975: the worker clears the share code and the collaborators.
DisableWrite ==
  /\ UNCHANGED profiles
  /\ \E w \in DOMAIN inflight :
       /\ inflight[w].op = "disable_round_sharing"
       /\ LET req == inflight[w]
              r == disable_round_sharing(req.round_id, req.user, rounds)
          IN  /\ rounds' = r.rounds
              /\ Answer(w, [op |-> req.op, user |-> req.user,
                            round_id |-> req.round_id, status |-> r.status])
       /\ UNCHANGED courses

\* rounds.py 874-901: a worker takes the owner's request to enable sharing,
\* selects the round and answers if the round has a share code.
EnableSelect ==
  /\ UNCHANGED profiles
  /\ \E w \in Workers \ DOMAIN inflight, round_id \in DOMAIN rounds :
       LET current_user == rounds[round_id].user_id
           decided == enable_round_sharing_select(round_id, current_user, rounds)
           request == [op |-> "enable_round_sharing", user |-> current_user,
                       round_id |-> round_id]
       IN  /\ IF decided = 0
              THEN Continue(w, request @@ [phase |-> "draw"])
              ELSE /\ Answer(w, request @@ [status |-> decided])
                   /\ UNCHANGED rounds
           /\ UNCHANGED courses

\* rounds.py 347-371 and 408-415: a worker takes the owner's update request
\* with share_enabled true and selects the round; the handler draws a share
\* code if the round has none.
UpdateShareSelect ==
  /\ UNCHANGED profiles
  /\ \E w \in Workers \ DOMAIN inflight, round_id \in DOMAIN rounds :
       LET current_user == rounds[round_id].user_id
           round_update == RoundUpdate(None, None, None, None, Some(TRUE))
           existing == Val(update_round_select(round_id, rounds))
           request == [op |-> "update_round", user |-> current_user,
                       round_id |-> round_id, args |-> round_update]
       IN  /\ IF IsNone(existing.share_code)
              THEN Continue(w, request @@ [phase |-> "draw", existing |-> existing])
              ELSE /\ Answer(w, request @@
                          [status |-> update_round_write(existing, round_id, round_update,
                                        current_user, courses, rounds, None).status])
                   /\ UNCHANGED rounds
           /\ UNCHANGED courses

\* rounds.py 904-912 and 417-428: the worker draws share codes until the
\* check finds one that no round holds, ten times at most.
ShareCodeLoop ==
  /\ UNCHANGED profiles
  /\ \E w \in DOMAIN inflight :
       /\ "phase" \in DOMAIN inflight[w]
       /\ inflight[w].phase = "draw"
       /\ \E code \in share_code_loop(10, rounds) :
            IF IsNone(code)
            THEN /\ Answer(w, [op |-> inflight[w].op, user |-> inflight[w].user,
                               round_id |-> inflight[w].round_id, status |-> 500])
                 /\ UNCHANGED rounds
            ELSE Continue(w, [phase |-> "write", code |-> Val(code)] @@ inflight[w])
       /\ UNCHANGED courses

\* rounds.py 914-925: the worker writes the share code it drew.
EnableWrite ==
  /\ UNCHANGED profiles
  /\ \E w \in DOMAIN inflight :
       /\ inflight[w].op = "enable_round_sharing"
       /\ inflight[w].phase = "write"
       /\ LET req == inflight[w]
              r == enable_round_sharing_write(req.round_id, req.code, rounds)
          IN  /\ rounds' = r.rounds
              /\ Answer(w, [op |-> req.op, user |-> req.user,
                            round_id |-> req.round_id, status |-> r.status,
                            code |-> req.code])
       /\ UNCHANGED courses

\* rounds.py 434-450: the worker writes the share code it drew.
UpdateShareWrite ==
  /\ UNCHANGED profiles
  /\ \E w \in DOMAIN inflight :
       /\ inflight[w].op = "update_round"
       /\ inflight[w].phase = "write"
       /\ LET req == inflight[w]
              r == update_round_write(req.existing, req.round_id, req.args, req.user,
                                      courses, rounds, Some(req.code))
          IN  /\ rounds' = r.rounds
              /\ Answer(w, [op |-> req.op, user |-> req.user,
                            round_id |-> req.round_id, status |-> r.status,
                            code |-> req.code])
       /\ UNCHANGED courses

\* rounds.py 194-238: get_round is one statement.
GetSharedRound ==
  /\ UNCHANGED profiles
  /\ \E w \in Workers \ DOMAIN inflight, current_user \in {"u2", "u3"},
        round_id \in DOMAIN rounds :
       /\ call' = [op |-> "get_round", user |-> current_user, round_id |-> round_id,
                   status |-> get_round(round_id, current_user, rounds).status,
                   worker |-> w]
       /\ UNCHANGED <<courses, rounds, inflight>>

\* Two rounds of u1 without share code; the owner enables sharing on them
\* through both endpoints.
InitShareCodes ==
  /\ profiles = ProfileTable
  /\ courses = CourseTable
  /\ rounds = Created(<<OnePlayerRound, OnePlayerRound>>)
  /\ call = [op |-> "init"]
  /\ inflight = <<>>

NextShareCodes ==
  \/ EnableSelect
  \/ UpdateShareSelect
  \/ ShareCodeLoop
  \/ EnableWrite
  \/ UpdateShareWrite

SpecShareCodes == InitShareCodes /\ [][NextShareCodes]_vars

\* One round of u1, shared; other users join and leave it, the owner
\* disables and enables sharing.
InitShareMembers ==
  /\ profiles = ProfileTable
  /\ courses = CourseTable
  /\ rounds = enable_round_sharing(1, "u1", Created(<<OnePlayerRound>>),
                                   Some("ABCDEF")).rounds
  /\ call = [op |-> "init"]
  /\ inflight = <<>>

NextShareMembers ==
  \/ JoinSelect
  \/ JoinWrite
  \/ LeaveSelect
  \/ LeaveWrite
  \/ DisableSelect
  \/ DisableWrite
  \/ EnableSelect
  \/ ShareCodeLoop
  \/ EnableWrite
  \/ GetSharedRound

SpecShareMembers == InitShareMembers /\ [][NextShareMembers]_vars

-----------------------------------------------------------------------------
(* Specification of the users router: update_user requests by the users    *)
(* that have a profile, one at a time.                                      *)

InitUsers ==
  /\ profiles = ProfileTable
  /\ courses = CourseTable
  /\ rounds = <<>>
  /\ inflight = <<>>
  /\ call = [op |-> "init"]

UpdateUser ==
  \E caller \in DOMAIN profiles, user_id \in UserIds, update \in UserUpdates :
    LET current_user == get_current_user(caller, profiles)
        r == update_user(user_id, update, current_user, profiles)
    IN  /\ profiles' = r.profiles
        /\ call' = [op |-> "update_user", user |-> caller, role |-> current_user.role,
                    user_id |-> user_id, args |-> update, status |-> r.status]
        /\ UNCHANGED <<courses, rounds, inflight>>

NextUsers == UpdateUser

SpecUsers == InitUsers /\ [][NextUsers]_vars

-----------------------------------------------------------------------------
(* Specification of the statistics aggregator: get_my_stats on a rounds   *)
(* table as the handlers of the rounds router leave it for a user.  The   *)
(* import handler stores scores, dates and handicap indexes as it is      *)
(* given them, and rounds finished before the virtual_handicap column     *)
(* existed hold no value for it.                                          *)

\* The rounds table holds at most MaxStatsRounds rows.
MaxStatsRounds == 2

\* A mutation of rounds_query: the is_finished filter is left out.
rounds_query_unfinished(current_user, rounds_table) ==
  LET hits == SelectSeq(rounds_table, LAMBDA r : r.user_id = current_user)
  IN  {[i \in 1..Len(hits) |-> hits[o[i]]] :
         o \in {q \in Permutations(1..Len(hits)) :
                  \A i, j \in 1..Len(hits) :
                    i < j => str_ge(hits[q[i]].round_date, hits[q[j]].round_date)}}

\* users.py 418-427: the finished rounds of the user ordered by round_date,
\* latest first; the store is free in the order of rounds of one date.
rounds_query(current_user, rounds_table) ==
  LET hits == SelectSeq(rounds_table,
                        LAMBDA r : r.user_id = current_user /\ r.is_finished)
  IN  {[i \in 1..Len(hits) |-> hits[o[i]]] :
         o \in {q \in Permutations(1..Len(hits)) :
                  \A i, j \in 1..Len(hits) :
                    i < j => str_ge(hits[q[i]].round_date, hits[q[j]].round_date)}}

Todays == {<<2024, 5, 15>>, <<2024, 1, 31>>}

\* card with the entry of hole h replaced by the given strokes
WithStrokes(card, h, strokes) ==
  [card EXCEPT ![str(h)] = [strokes |-> strokes, putts |-> 0]]

\* A stored round of user u1 on the course; stored says whether the row
\* holds the virtual handicap computed for its players.
StatsRow(course_length, game_mode, round_date, stored, playing_handicap, card) ==
  LET players == <<Player("P1", Some(2000), playing_handicap, "White", card)>>
  IN  [id |-> 1, user_id |-> "u1", od_user_id |-> "u1",
       course_id |-> Some("c1"), course_name |-> Some("Links"),
       round_date |-> round_date, course_length |-> course_length,
       game_mode |-> game_mode, use_handicap |-> TRUE,
       handicap_percentage |-> 100, current_hole |-> 18,
       completed_holes |-> <<>>, players |-> players, is_finished |-> TRUE,
       virtual_handicap |->
         IF stored
         THEN calculate_virtual_handicap(players, course_length, HolesData(18),
                                         TRUE, 100, <<Tee("White", 113)>>).ret
         ELSE None,
       share_code |-> None, collaborators |-> <<>>, updated_at |-> 1]

\* The stored round with further players after the user; a stored virtual
\* handicap is the one computed for the whole list.
WithCompanions(row, others) ==
  [row EXCEPT
     !.players = @ \o others,
     !.virtual_handicap =
       IF IsNone(@) THEN None
       ELSE calculate_virtual_handicap(row.players \o others, row.course_length,
                                       HolesData(18), TRUE, 100,
                                       <<Tee("White", 113)>>).ret]

\* Rounds in and around the current month, quarter and year, of every
\* course length and of two game modes, with and without a stored virtual
\* handicap; a round with a hole of non-positive strokes and a hole without
\* entry; rounds without scores, without players, of a course that is gone,
\* without a usable date; rounds with further players; an unfinished round
\* and a round of another user.
StatsRows ==
  LET par == Scorecard(0, 0, AllHoles)
      bogey == Scorecard(0, 1, AllHoles)
      double == Scorecard(0, 2, AllHoles)
      base == StatsRow("18", "stableford", <<2024, 5, 1>>, TRUE, 20, bogey)
  IN  {base,
       StatsRow("18", "stableford", <<2024, 4, 10>>, TRUE, 20, par),
       StatsRow("18", "stableford", <<2024, 4, 20>>, TRUE, 20,
                Scorecard(0, 0 - 1, AllHoles)),
       StatsRow("18", "stroke", <<2024, 1, 20>>, TRUE, 9, Scorecard(9, 2, AllHoles)),
       StatsRow("front9", "stroke", <<2024, 6, 2>>, TRUE, 9, Scorecard(3, 1, 1..9)),
       StatsRow("back9", "stableford", <<2024, 5, 1>>, FALSE, 20, Scorecard(0, 1, 10..18)),
       StatsRow("18", "stableford", <<2025, 1, 1>>, TRUE, 0, double),
       StatsRow("18", "stableford", <<2023, 12, 31>>, FALSE, 20, par),
       StatsRow("18", "stableford", <<2024, 5, 2>>, FALSE, 0, bogey),
       StatsRow("back9", "stableford", <<2024, 2, 30>>, TRUE, 9, Scorecard(0, 0, 10..18)),
       StatsRow("18", "stroke", <<2024, 5, 10>>, TRUE, 20,
                WithStrokes(Scorecard(0, 0, AllHoles \ {5}), 3, 0 - 1)),
       StatsRow("front9", "stableford", <<2024, 5, 3>>, FALSE, 0,
                WithStrokes(Scorecard(0, 0, {3}), 3, 0 - 1)),
       StatsRow("18", "stableford", <<>>, TRUE, 20, Scorecard(9, 0 - 2, AllHoles)),
       WithCompanions(base, <<Player("P2", Some(540), 5, "White", par)>>),
       WithCompanions(StatsRow("18", "stableford", <<2024, 5, 2>>, FALSE, 0, bogey),
                      <<Player("P2", Some(540), 5, "White", par)>>),
       WithCompanions(StatsRow("18", "stableford", <<2024, 5, 4>>, TRUE, 20, <<>>),
                      <<Player("P2", Some(1420), 14, "White", double),
                        Player("P3", None, 0, "White", par)>>),
       [base EXCEPT !.players = <<>>, !.virtual_handicap = None],
       [base EXCEPT !.course_id = Some("c0")],
       [base EXCEPT !.is_finished = FALSE],
       [base EXCEPT !.user_id = "u2", !.od_user_id = "u2"]}

\* The rounds tables: up to MaxStatsRounds of the rows.
RECURSIVE StatsTables(_)
StatsTables(n) ==
  IF n = 0 THEN {<<>>}
  ELSE StatsTables(n - 1)
       \cup {Append(t, r) : t \in {u \in StatsTables(n - 1) : Len(u) = n - 1},
                            r \in StatsRows}

InitStats ==
  /\ profiles = ProfileTable
  /\ courses = CourseTable
  /\ rounds \in StatsTables(MaxStatsRounds)
  /\ \E today \in Todays :
       call = [op |-> "args", user |-> "u1", today |-> today, out |-> None]
  /\ inflight = <<>>

\* users.py 398-779
GetMyStats ==
  /\ UNCHANGED profiles
  /\ /\ call.op = "args"
     /\ \E rounds_list \in rounds_query(call.user, rounds) :
          call' = [op |-> "get_my_stats", user |-> call.user, today |-> call.today,
                   rounds_list |-> rounds_list,
                   out |-> get_my_stats(<<[handicap_index |-> Some(2000)]>>,
                                        rounds_list, courses, call.today)]
     /\ UNCHANGED <<courses, rounds, inflight>>

NextStats == GetMyStats

SpecStats == InitStats /\ [][NextStats]_vars

-----------------------------------------------------------------------------
(* Properties *)

CalcOps == {"calculate_virtual_handicap", "calculate_vh_for_backfill",
            "get_my_stats"}
VhOps == {"calculate_virtual_handicap", "calculate_vh_for_backfill"}
HandicapOps == {"calculate_playing_handicap",
                "calculate_playing_handicap_for_backfill"}

\* The holes the completed call scored, with its per-hole local variables.
ScoredHoles == IF call.op \in CalcOps THEN call.out.holes ELSE <<>>

Abs(x) == IF x < 0 THEN 0 - x ELSE x

\* r is the integer nearest to n/d, the even one on a tie.
IsRoundOf(r, n, d) ==
  /\ 2 * Abs(r * d - n) <= d
  /\ 2 * Abs(r * d - n) = d => r % 2 = 0

\* C1: in all three copies, a playing handicap ph >= 0 gives a hole of stroke
\* index si exactly (ph div 18) + 1 strokes when si <= ph mod 18 and ph div 18
\* otherwise, whatever the course length; ph = 20 gives 1 stroke on si = 5.
C1_StrokesReceived ==
  \A h \in DOMAIN ScoredHoles :
    LET e == ScoredHoles[h]
        ph == e.playing_hcp
        si == e.handicap_index
    IN  /\ (ph >= 0 /\ si \in 1..18) =>
             e.strokes_received =
               (IF si <= ph % 18 THEN (ph \div 18) + 1 ELSE ph \div 18)
        /\ (ph = 20 /\ si = 5) => e.strokes_received = 1

C1_Witness ==
  /\ call.op = "calculate_vh_for_backfill"
  /\ call.args.course_length = "back9"
  /\ \E h \in DOMAIN ScoredHoles :
       /\ ScoredHoles[h].playing_hcp = 20
       /\ ScoredHoles[h].handicap_index = 5
       /\ ScoredHoles[h].strokes_received = 1

\* C2: in all three copies the Stableford points of a hole are 5, 4, 3, 2, 1,
\* 0 for d <= -3, -2, -1, 0, 1, >= 2 where d = (strokes - strokes received)
\* - par; they lie in 0..5 and never increase with d.
C2_StablefordTable ==
  /\ \A h \in DOMAIN ScoredHoles :
       LET e == ScoredHoles[h]
           d == (e.strokes - e.strokes_received) - e.par
       IN  /\ e.diff = d
           /\ e.points \in 0..5
           /\ d <= -3 => e.points = 5
           /\ d = -2 => e.points = 4
           /\ d = -1 => e.points = 3
           /\ d = 0 => e.points = 2
           /\ d = 1 => e.points = 1
           /\ d >= 2 => e.points = 0
  /\ \A h1, h2 \in DOMAIN ScoredHoles :
       ScoredHoles[h1].diff <= ScoredHoles[h2].diff
         => ScoredHoles[h1].points >= ScoredHoles[h2].points

C2_Witness ==
  /\ call.op = "calculate_virtual_handicap"
  /\ \E h1, h2 \in DOMAIN ScoredHoles :
       /\ ScoredHoles[h1].diff <= -3 /\ ScoredHoles[h1].points = 5
       /\ ScoredHoles[h2].diff = -2 /\ ScoredHoles[h2].points = 4

\* C3: calculate_playing_handicap returns h * slope / 113 * percentage / 100
\* rounded to the nearest integer, ties to even; on slope 113 at 100 % that
\* is round(h) for every handicap index 0.0 .. 54.0 given to one decimal.
C3_PlayingHandicapRound ==
  call.op \in HandicapOps =>
    LET a == call.args
    IN  /\ IsRoundOf(call.out, a.handicap_index * a.slope * a.percentage,
                     100 * 113 * 100)
        /\ (a.slope = 113 /\ a.percentage = 100 /\ a.handicap_index % 10 = 0)
             => IsRoundOf(call.out, a.handicap_index, 100)

C3_Witness ==
  /\ call.op = "calculate_playing_handicap"
  /\ call.args = [handicap_index |-> 250, slope |-> 113, percentage |-> 100]
  /\ call.out = 2

\* C4: a handicap index of 0 gives playing handicap 0 on every slope 55..155
\* at 100 % and at 75 %.
C4_ZeroIndex ==
  (/\ call.op = "calculate_playing_handicap"
   /\ call.args.handicap_index = 0
   /\ call.args.slope \in 55..155
   /\ call.args.percentage \in {100, 75})
    => call.out = 0

C4_Witness ==
  /\ call.op = "calculate_playing_handicap"
  /\ call.args = [handicap_index |-> 0, slope |-> 155, percentage |-> 75]
  /\ call.out = 0

-----------------------------------------------------------------------------
(* Properties of the virtual handicap calculator, stated on the arguments *)

\* The first player of the call has a recorded handicap index.
HasIndex(a) ==
  /\ Len(a.players) > 0
  /\ "od_handicap_index" \in DOMAIN a.players[1]
  /\ ~IsNone(a.players[1].od_handicap_index)

IndexOf(a) == Val(a.players[1].od_handicap_index)

ScoresOf(a) ==
  IF Len(a.players) > 0 /\ "scores" \in DOMAIN a.players[1]
  THEN a.players[1].scores ELSE <<>>

\* The holes a course length puts in scope.
Scope(course_length) ==
  CASE course_length = "front9" -> 1..9
    [] course_length = "back9" -> 10..18
    [] OTHER -> 1..18

HasEntry(a, h) == str(h) \in DOMAIN ScoresOf(a)
StrokesOn(a, h) == ScoresOf(a)[str(h)].strokes
HasMetadata(a, h) == \E i \in DOMAIN a.holes_data : a.holes_data[i].number = h
MetadataOf(a, h) ==
  a.holes_data[CHOOSE i \in DOMAIN a.holes_data : a.holes_data[i].number = h]

\* The in-scope holes with a score entry, strokes > 0 and hole metadata.
CountedHoles(a) ==
  {h \in Scope(a.course_length) :
     HasEntry(a, h) /\ StrokesOn(a, h) > 0 /\ HasMetadata(a, h)}

\* The handicap allocation and the Stableford table of the specification.
Allocation(ph, si) == IF si <= ph % 18 THEN (ph \div 18) + 1 ELSE ph \div 18
TablePoints(d) ==
  CASE d <= -3 -> 5 [] d = -2 -> 4 [] d = -1 -> 3
    [] d = 0 -> 2 [] d = 1 -> 1 [] OTHER -> 0

NetDiff(a, ph, h) ==
  StrokesOn(a, h) - Allocation(ph, MetadataOf(a, h).handicap) - MetadataOf(a, h).par

RECURSIVE SumPoints(_, _, _)
SumPoints(a, ph, S) ==
  IF S = {} THEN 0
  ELSE LET h == CHOOSE x \in S : TRUE
       IN  TablePoints(NetDiff(a, ph, h)) + SumPoints(a, ph, S \ {h})

\* N: the Stableford total of the counted holes, doubled for nine holes.
NormalizedPoints(a, ph) ==
  LET total == SumPoints(a, ph, CountedHoles(a))
  IN  IF a.course_length \in {"front9", "back9"} THEN 2 * total ELSE total

\* C5: a number returned by calculate_virtual_handicap is the handicap index
\* minus (N - 36), rounded to one decimal, N being the Stableford total of
\* the in-scope scored holes of the first player, doubled for front9/back9;
\* 14.2 with 40 points over 18 holes gives 10.2.
C5_VirtualHandicapValue ==
  (/\ call.op = "calculate_virtual_handicap"
   /\ ~IsNone(call.out.ret)
   /\ HasIndex(call.args))
    => LET a == call.args
           N == NormalizedPoints(a, call.out.effective_handicap)
       IN  /\ IsRoundOf(Val(call.out.ret), IndexOf(a) - (N - 36) * 100, 10)
           /\ (IndexOf(a) = 1420 /\ a.course_length = "18" /\ N = 40)
                => call.out.ret = Some(102)

C5_Witness ==
  /\ call.op = "calculate_virtual_handicap"
  /\ HasIndex(call.args)
  /\ IndexOf(call.args) = 1420
  /\ call.args.course_length = "18"
  /\ call.out.holes_played = 18
  /\ call.out.total_stableford = 40
  /\ call.out.ret = Some(102)

\* An 18-hole round with all 18 holes scored at net par.
NetParRound ==
  /\ call.op = "calculate_virtual_handicap"
  /\ call.args.course_length = "18"
  /\ HasIndex(call.args)
  /\ \A h \in 1..18 :
       /\ HasEntry(call.args, h)
       /\ HasMetadata(call.args, h)
       /\ NetDiff(call.args, call.out.effective_handicap, h) = 0

\* C6 as stated: on an 18-hole round with every hole at net par
\* calculate_virtual_handicap returns exactly the handicap index.
C6_RoundTripExact ==
  NetParRound =>
    /\ ~IsNone(call.out.ret)
    /\ Val(call.out.ret) * 10 = IndexOf(call.args)

\* C6 amended: on such a round calculate_virtual_handicap returns the
\* handicap index rounded to one decimal, hence exactly the handicap index
\* when that has at most one decimal.
C6_RoundTripRounded ==
  NetParRound =>
    /\ ~IsNone(call.out.ret)
    /\ IsRoundOf(Val(call.out.ret), IndexOf(call.args), 10)
    /\ IndexOf(call.args) % 10 = 0
         => Val(call.out.ret) * 10 = IndexOf(call.args)

C6_Witness ==
  /\ NetParRound
  /\ call.out.effective_handicap = 9
  /\ IndexOf(call.args) = 2000
  /\ call.out.ret = Some(200)

\* The calculator the completed call ran, applied to other arguments.
SameCalculator(b) ==
  IF call.op = "calculate_virtual_handicap"
  THEN calculate_virtual_handicap(b.players, b.course_length, b.holes_data,
                                  b.use_handicap, b.handicap_percentage, b.tees)
  ELSE calculate_vh_for_backfill(b.players, b.course_length, b.holes_data,
                                 b.use_handicap, b.handicap_percentage, b.tees)

\* The completed call is a nine-hole round that got a virtual handicap.
NineHoleValue ==
  /\ call.op \in VhOps
  /\ call.args.course_length \in {"front9", "back9"}
  /\ HasIndex(call.args)
  /\ call.out.exit = "value"

\* b is an 18-hole round of the same player and handicap index whose
\* Stableford total is twice that of the completed nine-hole call.
DoubledRound(b) ==
  /\ b.course_length = "18"
  /\ b.players[1].name = call.args.players[1].name
  /\ b.players[1].od_handicap_index = call.args.players[1].od_handicap_index
  /\ SameCalculator(b).exit = "value"
  /\ SameCalculator(b).total_stableford = 2 * call.out.total_stableford

\* C7: a front9 or back9 round totalling P points gets the virtual handicap
\* of an 18-hole round of the same player and handicap index totalling 2P.
C7_NineHoleNormalization ==
  NineHoleValue =>
    \A b \in LengthCards :
      DoubledRound(b) => SameCalculator(b).ret = call.out.ret

C7_Witness ==
  /\ NineHoleValue
  /\ call.op = "calculate_virtual_handicap"
  /\ call.out.total_stableford > 0
  /\ \E b \in LengthCards : DoubledRound(b)

\* C8: calculate_virtual_handicap returns null whenever the player list is
\* empty or the first player has no recorded handicap index, the
\* od_handicap_index key being null or missing.
C8_NullWithoutIndex ==
  (call.op = "calculate_virtual_handicap" /\ ~HasIndex(call.args))
    => IsNone(call.out.ret)

\* C10: calculate_virtual_handicap counts exactly the in-scope holes (1-9,
\* 10-18 or 1-18) that have a score entry, strokes > 0 and hole metadata:
\* the other holes add nothing to the points and to holes-played; with no
\* hole played the result is null.
C10_HoleExclusion ==
  (call.op = "calculate_virtual_handicap" /\ call.out.exit # "no_input"
     /\ call.out.exit # "no_scores_or_index")
    => LET a == call.args
           out == call.out
       IN  /\ DOMAIN out.holes = CountedHoles(a)
           /\ out.holes_played = Cardinality(CountedHoles(a))
           /\ out.total_stableford =
                SumPoints(a, out.effective_handicap, CountedHoles(a))
           /\ out.holes_played = 0 => IsNone(out.ret)

C10_Witness ==
  /\ call.op = "calculate_virtual_handicap"
  /\ call.args.course_length = "18"
  /\ \E h \in 1..18 : HasEntry(call.args, h) /\ StrokesOn(call.args, h) <= 0
  /\ \E h \in 1..18 : ~HasEntry(call.args, h)
  /\ \E h \in 1..18 : HasEntry(call.args, h) /\ ~HasMetadata(call.args, h)
  /\ call.out.holes_played > 0
  /\ ~IsNone(call.out.ret)

-----------------------------------------------------------------------------
(* Properties of update_round *)

\* The completed call is an update_round that wrote players whose first
\* player has playing handicap 0, a handicap index > 0 and a tee of the
\* course, and that scored at least one hole that counts.
LegacyUpdate ==
  /\ call.op = "update_round"
  /\ call.status = 200
  /\ ~IsNone(call.args.players)
  /\ LET row == rounds[call.round_id]
         p == Val(call.args.players)[1]
         course == courses[Val(row.course_id)]
     IN  /\ p.playing_handicap = 0
         /\ Val(p.od_handicap_index) > 0
         /\ \E i \in DOMAIN course.tees : course.tees[i].name = p.tee_box
         /\ CountedHoles([players |-> Val(call.args.players),
                          course_length |-> row.course_length,
                          holes_data |-> course.holes_data]) # {}

\* The virtual handicap of the written players when the first player's
\* playing handicap is recomputed at the given percentage.
LegacyValueAt(percentage) ==
  LET row == rounds[call.round_id]
      p == Val(call.args.players)[1]
      course == courses[Val(row.course_id)]
      tee == course.tees[CHOOSE i \in DOMAIN course.tees :
                           /\ course.tees[i].name = p.tee_box
                           /\ \A j \in DOMAIN course.tees :
                                course.tees[j].name = p.tee_box => i <= j]
      ph == calculate_playing_handicap(Val(p.od_handicap_index), tee.slope, percentage)
      N == NormalizedPoints([players |-> Val(call.args.players),
                             course_length |-> row.course_length,
                             holes_data |-> course.holes_data], ph)
  IN  py_round1(Val(p.od_handicap_index) - (N - 36) * 100)

\* C9: the virtual handicap update_round persists for such players is
\* computed with the playing handicap recomputed from the tee's slope and
\* the round's own stored handicap_percentage.
C9_LegacyUsesRoundPercentage ==
  LegacyUpdate =>
    rounds[call.round_id].virtual_handicap =
      Some(LegacyValueAt(rounds[call.round_id].handicap_percentage))

\* What update_round does instead: it recomputes at 100 %.
C9_LegacyUsesFullPercentage ==
  LegacyUpdate =>
    rounds[call.round_id].virtual_handicap = Some(LegacyValueAt(100))

\* The completed call is an update_round that wrote players.
PlayersUpdate ==
  /\ call.op = "update_round"
  /\ call.status = 200
  /\ ~IsNone(call.args.players)

\* calculate_virtual_handicap applied to the persisted players of a row,
\* with the course of the row and the arguments update_round passes.
ValueOfPersisted(row) ==
  LET course == courses[Val(row.course_id)]
  IN  calculate_virtual_handicap(row.players, row.course_length,
                                 course.holes_data, TRUE, 100, course.tees).ret

\* C11: after an update_round that carried players has been applied, the
\* persisted virtual_handicap of the round equals calculate_virtual_handicap
\* applied to the persisted players; players for which the value is not
\* computable leave no earlier value in place.
C11_StoredTracksScores ==
  PlayersUpdate =>
    rounds[call.round_id].virtual_handicap =
      ValueOfPersisted(rounds[call.round_id])

\* What update_round guarantees instead: the persisted value is the
\* computed one whenever the computation gives a value.
C11_StoredWhenComputable ==
  (PlayersUpdate /\ ~IsNone(ValueOfPersisted(rounds[call.round_id]))) =>
    rounds[call.round_id].virtual_handicap =
      ValueOfPersisted(rounds[call.round_id])

\* C12: whatever the interleaving of two update_round calls on a round that
\* both carry players, the persisted pair (players, virtual_handicap) after
\* a write is the pair computed by the call that issued it; the store never
\* holds the players of one call with the virtual_handicap of the other.
C12_LastWriteWinsWhole ==
  PlayersUpdate =>
    /\ rounds[call.round_id].players = Val(call.args.players)
    /\ rounds[call.round_id].virtual_handicap =
         ValueOfPersisted([rounds[call.round_id] EXCEPT
                             !.players = Val(call.args.players)])

\* What the store guarantees instead: the players are those of the last
\* write, and so is the virtual_handicap when that call computed one.
C12_LastWriteWinsComputable ==
  PlayersUpdate =>
    /\ rounds[call.round_id].players = Val(call.args.players)
    /\ ~IsNone(ValueOfPersisted(rounds[call.round_id])) =>
         rounds[call.round_id].virtual_handicap =
           ValueOfPersisted(rounds[call.round_id])

\* A write of players that was issued after another worker's write landed
\* between its select and its update.
C12_Overlap ==
  PlayersUpdate /\ "overlapped" \in DOMAIN call /\ call.overlapped

-----------------------------------------------------------------------------
(* Properties of get_my_stats *)

\* The completed call is get_my_stats on the rounds table.
StatsCall == call.op = "get_my_stats" /\ "rounds_list" \in DOMAIN call

\* The round of an entry of hvp_data.
RoundOf(e) == call.rounds_list[e.round]

\* The text is the ISO text of a calendar date.
IsCalendarDate(t) ==
  /\ Len(t) = 3
  /\ t[2] \in 1..12
  /\ t[3] >= 1
  /\ t[3] <= (CASE t[2] \in {4, 6, 9, 11} -> 30
                [] t[2] = 2 /\ t[1] % 4 = 0 /\ (t[1] % 100 # 0 \/ t[1] % 400 = 0) -> 29
                [] t[2] = 2 -> 28
                [] OTHER -> 31)

Quarter(m) == (m + 2) \div 3

\* The round_date lies inside today's calendar month, quarter or year.
InWindow(t, today, window) ==
  /\ IsCalendarDate(t)
  /\ t[1] = today[1]
  /\ CASE window = "month" -> t[2] = today[2]
       [] window = "quarter" -> Quarter(t[2]) = Quarter(today[2])
       [] OTHER -> TRUE

HvpWindows == {"month", "quarter", "year"}

\* The HVP values of the rounds dated inside the window.
ValuesInside(window) ==
  hvp_values(SelectSeq(call.out.locals.hvp_data,
                       LAMBDA e : InWindow(RoundOf(e).round_date, call.today, window)))

\* C13: hvp_month, hvp_quarter and hvp_year are each the mean of the HVP
\* values of exactly the rounds whose round_date lies inside the current
\* calendar month, quarter and year; a round dated after the end of the
\* window is not included.
C13_HvpWindows ==
  (StatsCall /\ call.out.total_rounds > 0) =>
    /\ call.out.hvp_month = hvp_avg(ValuesInside("month"))
    /\ call.out.hvp_quarter = hvp_avg(ValuesInside("quarter"))
    /\ call.out.hvp_year = hvp_avg(ValuesInside("year"))

\* What get_my_stats does instead: a window holds every round dated on or
\* after its first day.
C13_HvpSinceStart ==
  (StatsCall /\ call.out.total_rounds > 0) =>
    LET since(y, m) ==
          hvp_values(SelectSeq(call.out.locals.hvp_data,
                     LAMBDA e : LET t == RoundOf(e).round_date
                                IN  /\ IsCalendarDate(t)
                                    /\ (t[1] > y \/ (t[1] = y /\ t[2] >= m))))
        y == call.today[1]
    IN  /\ call.out.hvp_month = hvp_avg(since(y, call.today[2]))
        /\ call.out.hvp_quarter = hvp_avg(since(y, 3 * Quarter(call.today[2]) - 2))
        /\ call.out.hvp_year = hvp_avg(since(y, 1))

\* The values that contributed to each HVP field.
Contributed(field) ==
  CASE field = "hvp_total" -> hvp_values(call.out.locals.hvp_data)
    [] field = "hvp_month" -> call.out.locals.month_hvp
    [] field = "hvp_quarter" -> call.out.locals.quarter_hvp
    [] field = "hvp_year" -> call.out.locals.year_hvp

HvpFields == {"hvp_total", "hvp_month", "hvp_quarter", "hvp_year"}

\* C14: each HVP field is null exactly when no round contributed a value to
\* it, and otherwise the mean of the contributed values rounded to one
\* decimal, also when that mean is 0.
C14_HvpNullIffEmpty ==
  (StatsCall /\ call.out.total_rounds > 0) =>
    \A f \in HvpFields :
      LET xs == Contributed(f)
      IN  /\ IsNone(call.out[f]) <=> Len(xs) = 0
          /\ Len(xs) > 0 => IsRoundOf(Val(call.out[f]), sum(xs), 10 * Len(xs))

\* What get_my_stats guarantees instead: the same, except that a mean of
\* exactly 0 is returned as null.
C14_HvpNullIffEmptyOrZero ==
  (StatsCall /\ call.out.total_rounds > 0) =>
    \A f \in HvpFields :
      LET xs == Contributed(f)
      IN  /\ IsNone(call.out[f]) <=> (Len(xs) = 0 \/ sum(xs) = 0)
          /\ ~IsNone(call.out[f]) => IsRoundOf(Val(call.out[f]), sum(xs), 10 * Len(xs))

\* The user of the call has no finished round in the rounds table.
NoFinishedRounds ==
  \A i \in DOMAIN rounds : ~(rounds[i].user_id = call.user /\ rounds[i].is_finished)

DerivedFields ==
  {"avg_strokes_par3", "avg_strokes_par4", "avg_strokes_par5",
   "avg_putts_per_round", "avg_putts_9holes", "avg_putts_18holes",
   "avg_strokes_9holes", "avg_strokes_18holes", "avg_stableford_points",
   "hvp_total", "hvp_month", "hvp_quarter", "hvp_year",
   "best_round_score", "best_round_date", "best_round_course",
   "best_round_9_score", "best_round_9_date", "best_round_9_course",
   "eagles_or_better_pct", "birdies_pct", "pars_pct", "bogeys_pct",
   "double_bogeys_pct", "triple_or_worse_pct", "gir_pct"}

FallbackCall == call.op = "get_my_stats" /\ "args" \in DOMAIN call

\* What calculate_virtual_handicap returns for the round and course of the
\* call, in hundredths.
CalculatorValue ==
  LET a == call.args
      ret == calculate_virtual_handicap(a.players, a.course_length, a.holes_data,
                                        a.use_handicap, a.handicap_percentage,
                                        a.tees).ret
  IN  IF IsNone(ret) THEN None ELSE Some(10 * Val(ret))

\* The HVP value get_my_stats uses for the round, in hundredths.
UsedValue == IF call.out.skipped THEN None ELSE call.out.hvp_value

\* C16: for a finished round with no persisted virtual_handicap the HVP
\* value get_my_stats uses equals what calculate_virtual_handicap returns
\* for the same round and course.
C16_FallbackAgrees == FallbackCall => UsedValue = CalculatorValue

\* The cases in which the two agree: the stored playing handicap is not one
\* the calculator recomputes, every scored hole has positive strokes, the
\* Stableford total is positive and the handicap index has one decimal.
C16_FallbackAgreesOnPlainRounds ==
  (/\ FallbackCall
   /\ ~call.out.skipped
   /\ HasIndex(call.args)
   /\ IndexOf(call.args) % 10 = 0
   /\ "playing_handicap" \in DOMAIN call.args.players[1]
   /\ call.args.players[1].playing_handicap > 0
   /\ \A h \in DOMAIN call.out.holes : call.out.holes[h].strokes > 0
   /\ call.out.round_stableford > 0)
    => UsedValue = CalculatorValue

\* For a round with a persisted virtual_handicap the persisted value is
\* used unchanged.
C16_StoredUsedUnchanged ==
  (StatsCall /\ call.out.total_rounds > 0) =>
    \A i \in DOMAIN call.out.locals.hvp_data :
      LET e == call.out.locals.hvp_data[i]
      IN  ~IsNone(RoundOf(e).virtual_handicap) =>
            e.hvp = 10 * Val(RoundOf(e).virtual_handicap)

\* The rounds of the query result that reach the accumulations: the course
\* exists and there is a first player.
ContributingRounds ==
  {i \in DOMAIN call.rounds_list :
     /\ ~IsNone(call.rounds_list[i].course_id)
     /\ Val(call.rounds_list[i].course_id) \in DOMAIN courses
     /\ Len(call.rounds_list[i].players) > 0}

\* The round as an argument of the hole predicates.
RoundArgs(i) ==
  LET r == call.rounds_list[i]
  IN  [players |-> r.players, course_length |-> r.course_length,
       holes_data |-> courses[Val(r.course_id)].holes_data]

\* The in-scope holes of the round with an entry and hole metadata, valid
\* or not.
EnteredHoles(i) ==
  {h \in Scope(RoundArgs(i).course_length) :
     HasEntry(RoundArgs(i), h) /\ HasMetadata(RoundArgs(i), h)}

\* The sum of the values of a function over the set S.
RECURSIVE SumOver(_, _)
SumOver(S, F) ==
  IF S = {} THEN 0
  ELSE LET x == CHOOSE y \in S : TRUE IN F[x] + SumOver(S \ {x}, F)

SetSum(S, f(_)) == SumOver(S, [x \in S |-> f(x)])

\* The sum over the contributing rounds of f over the holes of the round
\* given by holes.
OverHoles(holes(_), f(_, _)) ==
  SetSum(ContributingRounds,
         LAMBDA i : SetSum(holes(i), LAMBDA h : f(i, h)))

PuttsOn(a, h) == ScoresOf(a)[str(h)].putts

\* The accumulations of the call are those of the holes given by holes.
AccumulatedOver(holes(_)) ==
  LET acc == call.out.locals
  IN  /\ acc.total_holes_for_distribution = OverHoles(holes, LAMBDA i, h : 1)
      /\ Len(acc.par3_strokes) + Len(acc.par4_strokes) + Len(acc.par5_strokes)
           = OverHoles(holes, LAMBDA i, h : 1)
      /\ sum(acc.par3_strokes) + sum(acc.par4_strokes) + sum(acc.par5_strokes)
           = OverHoles(holes, LAMBDA i, h : StrokesOn(RoundArgs(i), h))
      /\ sum(acc.strokes_9holes) + sum(acc.strokes_18holes)
           = OverHoles(holes, LAMBDA i, h : StrokesOn(RoundArgs(i), h))
      /\ acc.eagles_or_better + acc.birdies + acc.pars + acc.bogeys
           + acc.double_bogeys + acc.triple_or_worse
           = OverHoles(holes, LAMBDA i, h : 1)
      /\ acc.gir_total
           = OverHoles(holes, LAMBDA i, h :
                         IF PuttsOn(RoundArgs(i), h) > 0 THEN 1 ELSE 0)

\* C17: a hole of the first player with no score entry or with strokes <= 0
\* contributes to none of the accumulations of get_my_stats: they are those
\* of the in-scope holes with an entry and strokes > 0.
C17_InvalidHolesExcluded ==
  (StatsCall /\ call.out.total_rounds > 0) =>
    AccumulatedOver(LAMBDA i : CountedHoles(RoundArgs(i)))

\* What get_my_stats does instead: every in-scope hole with an entry
\* contributes, whatever its strokes.
C17_EnteredHolesAccumulated ==
  (StatsCall /\ call.out.total_rounds > 0) =>
    AccumulatedOver(EnteredHoles)

\* The finished rounds of game mode "stableford" with an existing course
\* and a first player.
StablefordRounds ==
  {i \in ContributingRounds : call.rounds_list[i].game_mode = "stableford"}

\* The Stableford total of the round over the given holes, with the stored
\* playing handicap, doubled for front9/back9.
RoundPoints(i, holes(_)) ==
  LET a == RoundArgs(i)
      total == SumPoints(a, a.players[1].playing_handicap, holes(i))
  IN  IF a.course_length \in {"front9", "back9"} THEN 2 * total ELSE total

\* avg_stableford_points is the mean, to two decimals, of the totals of the
\* rounds in members; null when there is none.
StablefordAverageOver(members, holes(_)) ==
  IF members = {} THEN IsNone(call.out.avg_stableford_points)
  ELSE /\ ~IsNone(call.out.avg_stableford_points)
       /\ IsRoundOf(Val(call.out.avg_stableford_points),
                    100 * SetSum(members, LAMBDA i : RoundPoints(i, holes)),
                    Cardinality(members))

\* C18: avg_stableford_points is the mean over exactly the finished rounds
\* of game mode "stableford" of the round's Stableford total, doubled for
\* front9/back9; no such round is left out because of its point total.
C18_StablefordAverage ==
  (StatsCall /\ call.out.total_rounds > 0) =>
    StablefordAverageOver(StablefordRounds,
                          LAMBDA i : CountedHoles(RoundArgs(i)))

\* What get_my_stats does instead: the mean is over the stableford rounds
\* whose total, counted over every entered hole, is positive.
C18_StablefordAverageOfScoring ==
  (StatsCall /\ call.out.total_rounds > 0) =>
    StablefordAverageOver({i \in StablefordRounds : RoundPoints(i, EnteredHoles) > 0},
                          EnteredHoles)

\* The contributing rounds of nine holes, and the others.
NineHoleRounds ==
  {i \in ContributingRounds : call.rounds_list[i].course_length \in {"front9", "back9"}}
FullRounds == ContributingRounds \ NineHoleRounds

\* The total strokes of the round over the given holes.
RoundStrokes(i, holes(_)) ==
  SetSum(holes(i), LAMBDA h : StrokesOn(RoundArgs(i), h))

\* The best-round fields named by prefix report the minimum of the totals
\* of the rounds in class that satisfy counts, with the date and course
\* name of a round attaining it; they are null when no round counts.
BestOf(prefix, class, holes(_), counts(_)) ==
  LET score == call.out[prefix \o "_score"]
      date == call.out[prefix \o "_date"]
      course == call.out[prefix \o "_course"]
      candidates == {i \in class : counts(RoundStrokes(i, holes))}
  IN  IF candidates = {}
      THEN IsNone(score) /\ IsNone(date) /\ IsNone(course)
      ELSE /\ ~IsNone(score)
           /\ \A i \in candidates : Val(score) <= RoundStrokes(i, holes)
           /\ \E i \in candidates :
                /\ RoundStrokes(i, holes) = Val(score)
                /\ date = Some(call.rounds_list[i].round_date)
                /\ course = call.rounds_list[i].course_name

\* C19: best_round_9_score is the minimum nonzero total of in-scope strokes
\* over the finished front9/back9 rounds and best_round_score the same over
\* the other finished rounds, each with the date and course name of a round
\* attaining it, and null exactly when its class has no round with nonzero
\* strokes.
C19_BestRounds ==
  (StatsCall /\ call.out.total_rounds > 0) =>
    /\ BestOf("best_round_9", NineHoleRounds,
              LAMBDA i : CountedHoles(RoundArgs(i)), LAMBDA t : t # 0)
    /\ BestOf("best_round", FullRounds,
              LAMBDA i : CountedHoles(RoundArgs(i)), LAMBDA t : t # 0)

\* What get_my_stats does instead: the totals are over every entered hole,
\* and the rounds that count are those with a positive total.
C19_BestRoundsOfEntered ==
  (StatsCall /\ call.out.total_rounds > 0) =>
    /\ BestOf("best_round_9", NineHoleRounds, EnteredHoles, LAMBDA t : t > 0)
    /\ BestOf("best_round", FullRounds, EnteredHoles, LAMBDA t : t > 0)

\* On rounds without a stored hole of non-positive strokes the claim holds
\* as stated.
C19_BestRoundsOfValidCards ==
  (/\ StatsCall /\ call.out.total_rounds > 0
   /\ \A i \in ContributingRounds : EnteredHoles(i) = CountedHoles(RoundArgs(i)))
    => /\ BestOf("best_round_9", NineHoleRounds,
                 LAMBDA i : CountedHoles(RoundArgs(i)), LAMBDA t : t # 0)
       /\ BestOf("best_round", FullRounds,
                 LAMBDA i : CountedHoles(RoundArgs(i)), LAMBDA t : t # 0)

\* The six buckets of strokes - par.
Buckets ==
  {"eagles_or_better", "birdies", "pars", "bogeys", "double_bogeys",
   "triple_or_worse"}

InBucket(d, b) ==
  CASE b = "eagles_or_better" -> d <= -2
    [] b = "birdies" -> d = -1
    [] b = "pars" -> d = 0
    [] b = "bogeys" -> d = 1
    [] b = "double_bogeys" -> d = 2
    [] b = "triple_or_worse" -> d >= 3

\* The holes get_my_stats counted whose strokes - par is in the bucket.
HolesIn(b) ==
  OverHoles(EnteredHoles,
            LAMBDA i, h : IF InBucket(StrokesOn(RoundArgs(i), h)
                                       - MetadataOf(RoundArgs(i), h).par, b)
                          THEN 1 ELSE 0)

\* C20: every hole counted by get_my_stats is in exactly one of the six
\* buckets by strokes - par, the six counts sum to the total of counted
\* holes, and each percentage is count / total * 100 rounded to one decimal.
C20_ScoreDistribution ==
  (StatsCall /\ call.out.total_rounds > 0) =>
    LET acc == call.out.locals
        total == acc.total_holes_for_distribution
    IN  /\ total = OverHoles(EnteredHoles, LAMBDA i, h : 1)
        /\ \A b \in Buckets : acc[b] = HolesIn(b)
        /\ acc.eagles_or_better + acc.birdies + acc.pars + acc.bogeys
             + acc.double_bogeys + acc.triple_or_worse = total
        /\ \A b \in Buckets :
             IF total = 0 THEN IsNone(call.out[b \o "_pct"])
             ELSE /\ ~IsNone(call.out[b \o "_pct"])
                  /\ IsRoundOf(Val(call.out[b \o "_pct"]), 1000 * acc[b], total)

\* Two rounds whose holes fall into four buckets, an eagle-or-better by
\* exactly -2 among them, with a percentage that is rounded.
C20_Witness ==
  /\ StatsCall
  /\ Cardinality(ContributingRounds) = 2
  /\ Cardinality({b \in Buckets : call.out.locals[b] > 0}) >= 4
  /\ \E i \in ContributingRounds : \E h \in EnteredHoles(i) :
       StrokesOn(RoundArgs(i), h) - MetadataOf(RoundArgs(i), h).par = -2
  /\ \E b \in Buckets :
       (1000 * call.out.locals[b]) % call.out.locals.total_holes_for_distribution # 0

\* The number of holes get_my_stats counted that satisfy the condition.
CountedWith(cond(_, _)) ==
  OverHoles(EnteredHoles, LAMBDA i, h : IF cond(i, h) THEN 1 ELSE 0)

HasPutts(i, h) == PuttsOn(RoundArgs(i), h) > 0

ReachedInRegulation(i, h) ==
  StrokesOn(RoundArgs(i), h) - PuttsOn(RoundArgs(i), h)
    <= MetadataOf(RoundArgs(i), h).par - 2

\* C21: a counted hole enters the GIR total iff its putts > 0 and is a GIR
\* hit iff additionally strokes - putts <= par - 2; GIR hits never exceed
\* the GIR total, and gir_pct is null exactly when no counted hole has
\* putts > 0 (and otherwise hit / total * 100 rounded to one decimal).
C21_GreenInRegulation ==
  (StatsCall /\ call.out.total_rounds > 0) =>
    LET acc == call.out.locals
    IN  /\ acc.gir_total = CountedWith(HasPutts)
        /\ acc.gir_hit = CountedWith(LAMBDA i, h : HasPutts(i, h)
                                                   /\ ReachedInRegulation(i, h))
        /\ acc.gir_hit <= acc.gir_total
        /\ IsNone(call.out.gir_pct) <=> CountedWith(HasPutts) = 0
        /\ ~IsNone(call.out.gir_pct) =>
             IsRoundOf(Val(call.out.gir_pct), 1000 * acc.gir_hit, acc.gir_total)

\* Counted holes with and without putts, hits and misses among the former,
\* a hit with strokes - putts = par - 2 and a hole without putts that
\* reached the green in regulation.
C21_Witness ==
  /\ StatsCall
  /\ call.out.locals.gir_hit > 0
  /\ call.out.locals.gir_hit < call.out.locals.gir_total
  /\ call.out.locals.gir_total < call.out.locals.total_holes_for_distribution
  /\ \E i \in ContributingRounds : \E h \in EnteredHoles(i) :
       /\ HasPutts(i, h)
       /\ StrokesOn(RoundArgs(i), h) - PuttsOn(RoundArgs(i), h)
            = MetadataOf(RoundArgs(i), h).par - 2
  /\ \E i \in ContributingRounds : \E h \in EnteredHoles(i) :
       ~HasPutts(i, h) /\ ReachedInRegulation(i, h)

\* Lists of players at positions 2 and later: none and two, with names,
\* handicaps and scores unlike those of the stored rounds.
CompanionLists ==
  {<<>>,
   <<Player("Q2", Some(5400), 54, "White", Scorecard(18, 2, AllHoles)),
     Player("Q3", None, 7, "Blue", Scorecard(0, 0, 1..9))>>}

\* The round with the players after the first replaced by others; a round
\* without players is left as it is.
ReplaceCompanions(row, others) ==
  IF Len(row.players) = 0 THEN row
  ELSE [row EXCEPT !.players = <<row.players[1]>> \o others]

\* What calculate_virtual_handicap returns for the stored round.
VirtualHandicapOf(row) ==
  calculate_virtual_handicap(row.players, row.course_length,
                             courses["c1"].holes_data, row.use_handicap,
                             row.handicap_percentage, courses["c1"].tees).ret

\* C22: the virtual handicap of a round and every field of UserStats depend
\* only on the first entry of each round's player list: a history that
\* differs from the one of the call only in the players at positions 2 and
\* later gives the same virtual handicaps and the same UserStats.
C22_FirstPlayerOnly ==
  StatsCall =>
    \A others \in CompanionLists :
      LET history == [i \in DOMAIN call.rounds_list |->
                        ReplaceCompanions(call.rounds_list[i], others)]
      IN  /\ get_my_stats(<<[handicap_index |-> Some(2000)]>>, history, courses,
                          call.today) = call.out
          /\ \A i \in DOMAIN history :
               VirtualHandicapOf(history[i]) = VirtualHandicapOf(call.rounds_list[i])

\* A history with a round of several players whose UserStats would differ
\* if another of its players were taken for the user.
C22_Witness ==
  /\ StatsCall
  /\ ~IsNone(call.out.hvp_total)
  /\ \E i \in DOMAIN call.rounds_list :
       LET r == call.rounds_list[i]
       IN  /\ Len(r.players) >= 2
           /\ r.players[2].scores # r.players[1].scores
           /\ r.players[2].od_handicap_index # r.players[1].od_handicap_index
           /\ get_my_stats(<<[handicap_index |-> Some(2000)]>>,
                           [call.rounds_list EXCEPT ![i].players = Tail(@)],
                           courses, call.today) # call.out
           /\ VirtualHandicapOf([r EXCEPT !.players = Tail(@)]) # VirtualHandicapOf(r)

-----------------------------------------------------------------------------
(* Properties of create_round *)

\* The tee of the course with the given name.
TeeNamed(course, tee_box) ==
  course.tees[CHOOSE i \in DOMAIN course.tees : course.tees[i].name = tee_box]

HasTee(course, tee_box) ==
  \E i \in DOMAIN course.tees : course.tees[i].name = tee_box

\* The inserted row is the round the request describes at its start.
StartsAsRequested(row, a) ==
  /\ Len(row.players) = Len(a.players)
  /\ \A i \in DOMAIN a.players :
       /\ row.players[i].name = a.players[i].name
       /\ row.players[i].scores = <<>>
       /\ row.players[i].playing_handicap =
            IF a.use_handicap
            THEN calculate_playing_handicap(
                   a.players[i].od_handicap_index,
                   TeeNamed(courses[a.course_id], a.players[i].tee_box).slope,
                   a.handicap_percentage)
            ELSE 0
  /\ row.is_finished = FALSE
  /\ row.completed_holes = <<>>
  /\ row.current_hole = IF a.course_length = "back9" THEN 10 ELSE 1

-----------------------------------------------------------------------------
(* The two copies of the calculator *)

\* What the copy of the calculator that was not called returns for the
\* arguments of the call.
OtherCopy ==
  LET a == call.args
  IN  IF call.op = "calculate_virtual_handicap"
      THEN calculate_vh_for_backfill(a.players, a.course_length, a.holes_data,
                                     a.use_handicap, a.handicap_percentage, a.tees)
      ELSE calculate_virtual_handicap(a.players, a.course_length, a.holes_data,
                                      a.use_handicap, a.handicap_percentage, a.tees)

\* C24: for every players list, course_length, holes_data,
\* handicap_percentage and tees, calculate_vh_for_backfill returns the same
\* result, null or number, as calculate_virtual_handicap.
C24_CopiesAgree ==
  call.op \in VhOps => call.out.ret = OtherCopy.ret

\* A call of the backfill copy that returns a number for a legacy round
\* (stored playing handicap 0, recomputed from the tee) with a hole three
\* or more under par net.
C24_Witness ==
  /\ call.op = "calculate_vh_for_backfill"
  /\ ~IsNone(call.out.ret)
  /\ Get(call.args.players[1], "playing_handicap", 0) = 0
  /\ call.out.effective_handicap > 0
  /\ \E h \in DOMAIN call.out.holes : call.out.holes[h].diff <= -3

\* A pair of calls on which both copies return null.
C24_WitnessNull ==
  /\ call.op = "calculate_vh_for_backfill"
  /\ IsNone(call.out.ret)
  /\ IsNone(OtherCopy.ret)

-----------------------------------------------------------------------------
(* Properties of the shared rounds endpoints *)

\* The user is the owner of the stored round or in its collaborators list.
IsCollaborator(user, row) ==
  \E i \in DOMAIN row.collaborators : row.collaborators[i] = user

HasAccess(user, row) == user = row.user_id \/ IsCollaborator(user, row)

\* The columns of the row that differ between the two tables.
Changed(before, after, id) ==
  {c \in DOMAIN before[id] : after[id][c] # before[id][c]}

C25_WitnessDenied ==
  /\ call.op = "update_round"
  /\ call.status = 403
  /\ ~IsNone(rounds[call.round_id].share_code)
  /\ Len(rounds[call.round_id].collaborators) > 0

\* The step answers a request to the endpoint.
Answers(op) == call'.op = op /\ DOMAIN inflight' \subseteq DOMAIN inflight

\* C26: after the owner has disabled sharing, through disable_round_sharing
\* or through update_round with share_enabled false, the round has no share
\* code and no collaborators; and as long as the round has no share code it
\* stays without collaborators, every user but the owner gets 403 from
\* get_round and update_round, and no join succeeds on it.
C26_DisablingRevokesAccess ==
  [][/\ \/ Answers("disable_round_sharing")
        \/ /\ Answers("update_round")
           /\ call'.args.share_enabled = Some(FALSE)
           /\ call'.user = rounds[call'.round_id].user_id
        => (call'.status = 200 =>
              /\ IsNone(rounds'[call'.round_id].share_code)
              /\ rounds'[call'.round_id].collaborators = <<>>)
     /\ \A id \in DOMAIN rounds :
          IsNone(rounds[id].share_code) /\ IsNone(rounds'[id].share_code)
            => rounds'[id].collaborators = <<>>
     /\ (Answers("get_round") \/ Answers("update_round"))
        /\ call'.round_id \in DOMAIN rounds
        /\ IsNone(rounds[call'.round_id].share_code)
        /\ call'.user # rounds[call'.round_id].user_id
        => call'.status = 403
     /\ Answers("join_round_by_code") /\ call'.status = 200
        => \E id \in DOMAIN rounds :
             /\ ~IsNone(rounds[id].share_code)
             /\ HasAccess(call'.user, rounds'[id])]_vars

\* C27: no two rounds hold the same share code, whatever the order in which
\* the store serves the statements of enable_round_sharing and
\* update_round(share_enabled true) calls on different rounds.
C27_ShareCodesUnique ==
  \A i, j \in DOMAIN rounds :
    i # j /\ ~IsNone(rounds[i].share_code)
      => rounds[i].share_code # rounds[j].share_code

\* The second half of C27: a round that has a share code keeps it when
\* sharing is enabled on it again.
C27_ShareCodeKept ==
  [][(call'.op \in {"enable_round_sharing", "update_round"} /\ call' # call)
       => \A i \in DOMAIN rounds :
            ~IsNone(rounds[i].share_code)
              => rounds'[i].share_code = rounds[i].share_code]_vars

\* C28: joining is never lost, whatever the order in which the store serves
\* the statements of join_round_by_code and leave_shared_round calls: a
\* user whose join succeeded is in the collaborators list when the call
\* returns, and stays in it until they leave or the owner disables sharing.
C28_JoiningNeverLost ==
  [][/\ (Answers("join_round_by_code") /\ call'.status = 200 /\ call' # call)
          => \E id \in DOMAIN rounds : HasAccess(call'.user, rounds'[id])
     /\ \A id \in DOMAIN rounds, user \in ShareUsers :
          IsCollaborator(user, rounds[id]) /\ ~IsCollaborator(user, rounds'[id])
            => \/ Answers("leave_shared_round") /\ call'.user = user
               \/ Answers("disable_round_sharing")
               \/ Answers("update_round")]_vars

\* The second part of C28: the collaborators list never contains the owner
\* or one user twice.
C28_NoOwnerNoDuplicate ==
  \A id \in DOMAIN rounds :
    LET collaborators == rounds[id].collaborators
    IN  /\ ~IsCollaborator(rounds[id].user_id, rounds[id])
        /\ \A i, j \in DOMAIN collaborators :
             collaborators[i] = collaborators[j] => i = j

\* The third part of C28: a join on a finished round by a user who is not a
\* member fails with 400 and leaves the list unchanged.
C28_FinishedRoundClosed ==
  [][(Answers("join_round_by_code") /\ call' # call)
       => \A id \in DOMAIN rounds :
            /\ rounds[id].share_code = Some(upper(call'.share_code))
            /\ rounds[id].is_finished
            /\ ~HasAccess(call'.user, rounds[id])
            => call'.status = 400 /\ rounds' = rounds]_vars

-----------------------------------------------------------------------------
(* Properties of update_user *)

\* The request is one the caller's role does not allow: a non-owner sets
\* role or permissions, or a plain user sets status or names another id.
NotAllowed(caller, role, user_id, update) ==
  \/ role # "owner" /\ (~IsNone(update.role) \/ ~IsNone(update.permissions))
  \/ role = "user" /\ (~IsNone(update.status) \/ user_id # caller)

\* No profile has become an owner.
NoNewOwner ==
  \A id \in DOMAIN profiles' :
    profiles'[id].role = "owner" => id \in DOMAIN profiles /\ profiles[id].role = "owner"

\* C29 as stated: no update_user call makes a profile an owner, and a
\* request the caller's role does not allow is answered 403 and changes no
\* profile.
C29_Stated ==
  [][call'.op = "update_user" =>
       /\ NoNewOwner
       /\ NotAllowed(call'.user, profiles[call'.user].role, call'.user_id, call'.args)
            => call'.status = 403 /\ profiles' = profiles]_vars

\* C29: no update_user call makes a profile an owner, and a request the
\* caller's role does not allow is rejected and changes no profile: with
\* 404 when the user_id is a reserved word of the route, with 403 otherwise.
C29_OwnerNeverGranted ==
  [][call'.op = "update_user" =>
       /\ NoNewOwner
       /\ NotAllowed(call'.user, profiles[call'.user].role, call'.user_id, call'.args)
            => /\ profiles' = profiles
               /\ call'.status = IF call'.user_id \in {"me", "owner"} THEN 404 ELSE 403]_vars

\* An admin asked for a role and got 403.
C29_Witness ==
  /\ call.op = "update_user"
  /\ profiles[call.user].role = "admin"
  /\ call.args.role = Some("admin")
  /\ call.user_id \in DOMAIN profiles
  /\ call.status = 403

\* The owner asked for the owner role for another profile and got 403.
C29_WitnessOwner ==
  /\ call.op = "update_user"
  /\ profiles[call.user].role = "owner"
  /\ call.args.role = Some("owner")
  /\ call.user_id \in DOMAIN profiles /\ call.user_id # call.user
  /\ call.status = 403

\* A plain user asked for a role under the reserved word and got 404.
C29_WitnessReserved ==
  /\ call.op = "update_user"
  /\ profiles[call.user].role = "user"
  /\ ~IsNone(call.args.role)
  /\ call.user_id = "owner"
  /\ call.status = 404

-----------------------------------------------------------------------------
(* The HVP windows *)

\* C30: in every UserStats returned, hvp_month non-null implies hvp_quarter
\* non-null, hvp_quarter non-null implies hvp_year non-null, and hvp_year
\* non-null implies hvp_total non-null.
C30_HvpWindowsNested ==
  StatsCall =>
    /\ ~IsNone(call.out.hvp_month) => ~IsNone(call.out.hvp_quarter)
    /\ ~IsNone(call.out.hvp_quarter) => ~IsNone(call.out.hvp_year)
    /\ ~IsNone(call.out.hvp_year) => ~IsNone(call.out.hvp_total)

\* The entries of hvp_data dated on or after the first day of the month.
CountedSince(month) ==
  {i \in DOMAIN call.out.locals.hvp_data :
     LET t == RoundOf(call.out.locals.hvp_data[i]).round_date
     IN  /\ IsCalendarDate(t)
         /\ (t[1] > call.today[1] \/ (t[1] = call.today[1] /\ t[2] >= month))}

\* The premise of C30: every round counted for hvp_month is counted for
\* hvp_quarter, every round counted for hvp_quarter is counted for hvp_year,
\* and the windows hold as many values as rounds.
C30_RoundsNested ==
  (StatsCall /\ call.out.total_rounds > 0) =>
    LET month == CountedSince(call.today[2])
        quarter == CountedSince(3 * Quarter(call.today[2]) - 2)
        year == CountedSince(1)
    IN  /\ month \subseteq quarter /\ quarter \subseteq year
        /\ Len(Contributed("hvp_month")) = Cardinality(month)
        /\ Len(Contributed("hvp_quarter")) = Cardinality(quarter)
        /\ Len(Contributed("hvp_year")) = Cardinality(year)
        /\ Len(Contributed("hvp_total")) >= Cardinality(year)

====
